---- MODULE Spec2Model ----
(***************************************************************************)
(* Model of claude_document_mcp/server.py: the document tools of the MCP   *)
(* server, as handlers acting on a filesystem.  Every handler is one       *)
(* action; the value it returns is kept in `result`, the call in `call`,   *)
(* and the filesystem and trash as they were before the call in `pre`.     *)
(***************************************************************************)
EXTENDS Integers, Sequences, FiniteSets, TLC

VARIABLES
    fs,      \* the filesystem: path -> node (missing, file with data, directory)
    trash,   \* what send2trash has moved to the recycle bin: set of [path, node]
    call,    \* the last tool call: its name, arguments and environment outcome
    result,  \* what the last tool call returned (a dict), or the exception it let out
    pre      \* fs and trash as they were when the last call started

vars == <<fs, trash, call, result, pre>>

(***************************************************************************)
(* Bounds of the model.                                                    *)
(***************************************************************************)
\* Largest number of untracked entries a directory of the initial filesystem holds.
MaxExtra == 11
\* Largest number of untracked entries a directory inside "dir" holds initially.
MaxSubExtra == 1
\* Largest number of items the trash holds (send2trash is not called beyond it).
MaxTrash == 3

(***************************************************************************)
(* Python values.                                                          *)
(***************************************************************************)
\* Python's None, where a dict holds a string or None.
None == "<None>"

\* The value of `result` before any call.
NoResult == [tool |-> "none"]

\* str(e) of an exception raised by the operating system or a library.
ErrText(exc) == "<" \o exc \o ">"

(***************************************************************************)
(* The filesystem.  Paths are relative to the working directory, which     *)
(* always exists; "dir/a" and "dir/b" lie in "dir".                        *)
(***************************************************************************)
Paths == {"dir", "dir/a", "dir/b"}

Root == "."

\* os.path.dirname(os.path.abspath(p))
dirname(p) == IF p = "dir" THEN Root ELSE "dir"

\* os.path.basename(p)
basename(p) == CASE p = "dir" -> "dir" [] p = "dir/a" -> "a" [] p = "dir/b" -> "b"

Missing == [kind |-> "missing"]
File(data) == [kind |-> "file", data |-> data]
\* A directory; `extra` counts its entries other than the tracked paths.
Dir(extra) == [kind |-> "dir", extra |-> extra]

Children(p) == {q \in Paths : dirname(q) = p}

\* os.path.exists(p)
exists(F, p) == p = Root \/ F[p].kind # "missing"

\* os.path.isdir(p)
isdir(F, p) == p = Root \/ F[p].kind = "dir"

\* A filesystem is a tree: whatever exists lies in a directory.
WellFormed(F) == \A p \in Paths : exists(F, p) => isdir(F, dirname(p))

\* The names "e1" .. "en" of the untracked entries of a directory.
ExtraNames(n) == [i \in 1..n |-> "e" \o ToString(i)]

\* The tracked children of p that exist, as a sequence in name order.
TrackedNames(F, p) ==
    (IF "dir/a" \in Children(p) /\ exists(F, "dir/a") THEN <<"a">> ELSE <<>>)
    \o (IF "dir/b" \in Children(p) /\ exists(F, "dir/b") THEN <<"b">> ELSE <<>>)

\* os.listdir(p) of a directory, in the order the operating system gives.
listdir(F, p) == ExtraNames(F[p].extra) \o TrackedNames(F, p)

\* The length of a string list when written out, a line break after each.
RECURSIVE TextLen(_)
TextLen(lines) ==
    IF lines = <<>> THEN 0 ELSE Len(Head(lines)) + 1 + TextLen(Tail(lines))

\* os.path.getsize(p) of a regular file.  Only delete_file's message reads it;
\* a text file has the length of its text, a container file (docx, xlsx, pdf)
\* the number of parts the model keeps of it.
getsize(F, p) ==
    LET data == F[p].data IN
    IF data.t = "text" THEN TextLen(data.lines) ELSE Cardinality(DOMAIN data)

\* contents[:n]
Slice(s, n) == SubSeq(s, 1, IF Len(s) < n THEN Len(s) ELSE n)

(***************************************************************************)
(* What a handler's body comes to: the filesystem and trash it leaves and  *)
(* either the dict it returns or the exception it raises.                  *)
(***************************************************************************)
Return(F, T, dict) == [fs |-> F, trash |-> T, raised |-> None, ret |-> dict]
Raise(F, T, exc) == [fs |-> F, trash |-> T, raised |-> exc, ret |-> NoResult]

\* The environment's part in a call: no failure, or the exception `exc`
\* raised by the operating-system or library call at site `at`.  In
\* delete_file the site "remove" stands for os.path.getsize, send2trash and
\* os.remove alike: each raises before anything is changed.
NoFault == [at |-> "none", exc |-> None]
Fault(at, exc) == [at |-> at, exc |-> exc]
FaultsAt(sites, excs) == {NoFault} \cup {Fault(a, e) : a \in sites, e \in excs}

Fails(fault, site) == fault.at = site

(***************************************************************************)
(* File management: delete_file and delete_directory.                      *)
(***************************************************************************)
ConfirmErrorMessage ==
    <<"Suppression annulee. Le parametre 'confirm' doit etre: 'CORBEILLE' (recuperable) ou 'SUPPRESSION DÉFINITIVE' (permanent)">>

\* Mutant: the confirmation is compared without regard to case.
ValidConfirm_IgnoreCase(confirm) ==
    confirm \in {"CORBEILLE", "corbeille", "SUPPRESSION DÉFINITIVE"}

\* confirm in ["CORBEILLE", "SUPPRESSION DÉFINITIVE"]
ValidConfirm(confirm) == confirm \in {"CORBEILLE", "SUPPRESSION DÉFINITIVE"}

\* send2trash(p): the node leaves the filesystem for the trash.
send2trash(F, T, p) ==
    [fs |-> [F EXCEPT ![p] = Missing], trash |-> T \cup {[path |-> p, node |-> F[p]]}]

\* os.remove(p) and os.rmdir(p): the node is gone.
remove(F, T, p) == [fs |-> [F EXCEPT ![p] = Missing], trash |-> T]

\* Mutant: the two branches of the removal are swapped.
delete_file_remove_Swapped(F, T, filepath, confirm) ==
    IF confirm = "CORBEILLE"
    THEN LET e == remove(F, T, filepath) IN
         Return(e.fs, e.trash,
                [success |-> TRUE,
                 message |-> <<"Supprime definitivement: ", basename(filepath), " (",
                               ToString(getsize(F, filepath)), " bytes) - NON RECUPERABLE">>,
                 filepath |-> filepath, deleted |-> TRUE, method |-> "trash"])
    ELSE LET e == send2trash(F, T, filepath) IN
         Return(e.fs, e.trash,
                [success |-> TRUE,
                 message |-> <<"Envoye a la corbeille: ", basename(filepath), " (",
                               ToString(getsize(F, filepath)), " bytes) - RECUPERABLE">>,
                 filepath |-> filepath, deleted |-> TRUE, method |-> "permanent"])

\* delete_file, lines 770-789: the removal itself, once the guards have passed.
delete_file_remove(F, T, filepath, confirm) ==
    IF confirm = "CORBEILLE"
    THEN LET e == send2trash(F, T, filepath) IN
         Return(e.fs, e.trash,
                [success |-> TRUE,
                 message |-> <<"Envoye a la corbeille: ", basename(filepath), " (",
                               ToString(getsize(F, filepath)), " bytes) - RECUPERABLE">>,
                 filepath |-> filepath, deleted |-> TRUE, method |-> "trash"])
    ELSE LET e == remove(F, T, filepath) IN
         Return(e.fs, e.trash,
                [success |-> TRUE,
                 message |-> <<"Supprime definitivement: ", basename(filepath), " (",
                               ToString(getsize(F, filepath)), " bytes) - NON RECUPERABLE">>,
                 filepath |-> filepath, deleted |-> TRUE, method |-> "permanent"])

\* Mutant: the directory test is missing, so a directory goes to the trash
\* as a file would (os.remove of a directory raises).
delete_file_try_NoDirCheck(F, T, filepath, confirm, fault) ==
    IF ~ValidConfirm(confirm)
    THEN Return(F, T, [success |-> FALSE, message |-> ConfirmErrorMessage,
                       filepath |-> filepath, deleted |-> FALSE])
    ELSE IF ~exists(F, filepath)
    THEN Return(F, T, [success |-> FALSE, message |-> <<"File not found: ", filepath>>,
                       filepath |-> filepath, deleted |-> FALSE])
    ELSE IF Fails(fault, "remove")
    THEN Raise(F, T, fault.exc)
    ELSE IF isdir(F, filepath)
    THEN IF confirm = "CORBEILLE"
         THEN LET e == send2trash(F, T, filepath) IN
              Return(e.fs, e.trash,
                     [success |-> TRUE, message |-> <<"Envoye a la corbeille: ", basename(filepath)>>,
                      filepath |-> filepath, deleted |-> TRUE, method |-> "trash"])
         ELSE Raise(F, T, "IsADirectoryError")
    ELSE delete_file_remove(F, T, filepath, confirm)

\* delete_file, the body of its try block (lines 753-789).
delete_file_try(F, T, filepath, confirm, fault) ==
    IF ~ValidConfirm(confirm)
    THEN Return(F, T, [success |-> FALSE, message |-> ConfirmErrorMessage,
                       filepath |-> filepath, deleted |-> FALSE])
    ELSE IF ~exists(F, filepath)
    THEN Return(F, T, [success |-> FALSE, message |-> <<"File not found: ", filepath>>,
                       filepath |-> filepath, deleted |-> FALSE])
    ELSE IF isdir(F, filepath)
    THEN Return(F, T, [success |-> FALSE,
                       message |-> <<"Cannot delete directory with this function: ", filepath>>,
                       filepath |-> filepath, deleted |-> FALSE])
    ELSE IF Fails(fault, "remove")
    THEN Raise(F, T, fault.exc)
    ELSE delete_file_remove(F, T, filepath, confirm)

\* Mutant: the except clauses answer as those of the other tools do, with
\* filepath None.
delete_file_NonePath(F, T, filepath, confirm, fault) ==
    LET o == delete_file_try(F, T, filepath, confirm, fault) IN
    IF o.raised = None THEN o
    ELSE IF o.raised = "PermissionError"
    THEN Return(o.fs, o.trash, [success |-> FALSE, message |-> <<"Permission denied: ", filepath>>,
                                filepath |-> None, deleted |-> FALSE])
    ELSE Return(o.fs, o.trash, [success |-> FALSE,
                                message |-> <<"Error deleting file: ", ErrText(o.raised)>>,
                                filepath |-> None, deleted |-> FALSE])

\* delete_file with its except clauses (lines 752-794).
delete_file(F, T, filepath, confirm, fault) ==
    LET o == delete_file_try(F, T, filepath, confirm, fault) IN
    IF o.raised = None THEN o
    ELSE IF o.raised = "PermissionError"
    THEN Return(o.fs, o.trash, [success |-> FALSE, message |-> <<"Permission denied: ", filepath>>,
                                filepath |-> filepath, deleted |-> FALSE])
    ELSE Return(o.fs, o.trash, [success |-> FALSE,
                                message |-> <<"Error deleting file: ", ErrText(o.raised)>>,
                                filepath |-> filepath, deleted |-> FALSE])

\* Mutant: the whole listing is returned.
NotEmptyResult_Unsliced(dirpath, contents) ==
    [success |-> FALSE,
     message |-> <<"Directory not empty (", ToString(Len(contents)), " items). Delete contents first.">>,
     dirpath |-> dirpath, contents |-> contents, deleted |-> FALSE]

\* delete_directory, lines 826-832: the answer for a directory that is not empty.
NotEmptyResult(dirpath, contents) ==
    [success |-> FALSE,
     message |-> <<"Directory not empty (", ToString(Len(contents)), " items). Delete contents first.">>,
     dirpath |-> dirpath, contents |-> Slice(contents, 10), deleted |-> FALSE]

\* delete_directory, lines 834-853: the removal itself, once the guards have passed.
delete_directory_remove(F, T, dirpath, confirm) ==
    IF confirm = "CORBEILLE"
    THEN LET e == send2trash(F, T, dirpath) IN
         Return(e.fs, e.trash,
                [success |-> TRUE,
                 message |-> <<"Dossier envoye a la corbeille: ", dirpath, " - RECUPERABLE">>,
                 dirpath |-> dirpath, deleted |-> TRUE, method |-> "trash"])
    ELSE LET e == remove(F, T, dirpath) IN
         Return(e.fs, e.trash,
                [success |-> TRUE,
                 message |-> <<"Dossier supprime definitivement: ", dirpath, " - NON RECUPERABLE">>,
                 dirpath |-> dirpath, deleted |-> TRUE, method |-> "permanent"])

\* delete_directory, the body of its try block (lines 810-853).
delete_directory_try(F, T, dirpath, confirm, fault) ==
    IF ~ValidConfirm(confirm)
    THEN Return(F, T, [success |-> FALSE, message |-> ConfirmErrorMessage,
                       dirpath |-> dirpath, deleted |-> FALSE])
    ELSE IF ~exists(F, dirpath)
    THEN Return(F, T, [success |-> FALSE, message |-> <<"Directory not found: ", dirpath>>,
                       dirpath |-> dirpath, deleted |-> FALSE])
    ELSE IF ~isdir(F, dirpath)
    THEN Return(F, T, [success |-> FALSE, message |-> <<"Not a directory: ", dirpath>>,
                       dirpath |-> dirpath, deleted |-> FALSE])
    ELSE IF Fails(fault, "listdir")
    THEN Raise(F, T, fault.exc)
    ELSE IF Len(listdir(F, dirpath)) > 0
    THEN Return(F, T, NotEmptyResult(dirpath, listdir(F, dirpath)))
    ELSE IF Fails(fault, "remove")
    THEN Raise(F, T, fault.exc)
    ELSE delete_directory_remove(F, T, dirpath, confirm)

\* delete_directory with its except clauses (lines 809-858).
delete_directory(F, T, dirpath, confirm, fault) ==
    LET o == delete_directory_try(F, T, dirpath, confirm, fault) IN
    IF o.raised = None THEN o
    ELSE IF o.raised = "PermissionError"
    THEN Return(o.fs, o.trash, [success |-> FALSE, message |-> <<"Permission denied: ", dirpath>>,
                                dirpath |-> dirpath, deleted |-> FALSE])
    ELSE Return(o.fs, o.trash, [success |-> FALSE,
                                message |-> <<"Error deleting directory: ", ErrText(o.raised)>>,
                                dirpath |-> dirpath, deleted |-> FALSE])

(***************************************************************************)
(* Writing files: os.makedirs(..., exist_ok=True) and the save of a        *)
(* document, workbook or canvas.                                           *)
(***************************************************************************)
\* os.makedirs(os.path.dirname(os.path.abspath(p)), exist_ok=True): the
\* filesystem it leaves, the parent directory being created when missing.
makedirs(F, p) ==
    IF exists(F, dirname(p)) THEN F ELSE [F EXCEPT ![dirname(p)] = Dir(0)]

\* makedirs raises when the parent path is a regular file (FileExistsError).
makedirs_raises(F, p) == exists(F, dirname(p)) /\ ~isdir(F, dirname(p))

\* doc.save(p), df.to_excel(p), c.save(): the file at p holds `data`.
write(F, p, data) == [F EXCEPT ![p] = File(data)]

\* Opening p for writing raises when p is a directory (IsADirectoryError).
write_raises(F, p) == isdir(F, p)

\* The two steps every creating tool ends with: the parent directory is made,
\* then the file is saved.  Either can raise; the directory made by the first
\* stays when the second raises.
makedirs_and_save(F, T, p, data, fault, dict) ==
    IF Fails(fault, "makedirs") THEN Raise(F, T, fault.exc)
    ELSE IF makedirs_raises(F, p) THEN Raise(F, T, "FileExistsError")
    ELSE IF Fails(fault, "save") THEN Raise(makedirs(F, p), T, fault.exc)
    ELSE IF write_raises(F, p) THEN Raise(makedirs(F, p), T, "IsADirectoryError")
    ELSE Return(write(makedirs(F, p), p, data), T, dict)

(***************************************************************************)
(* Word documents.  A document is what python-docx keeps of it and what    *)
(* read_word_document_structure reads back: the header and footer texts    *)
(* and the body, a sequence of paragraphs and tables.  XML attributes are  *)
(* kept as the strings the file holds.                                     *)
(***************************************************************************)
\* An optional value: <<>> for an absent element or None, <<v>> for v.
Absent == <<>>
Some(v) == <<v>>

Run(text, bold, italic) == [text |-> text, bold |-> bold, italic |-> italic]

Para(style, align, runs) == [k |-> "p", style |-> style, align |-> align, runs |-> runs]

\* A table cell: its w:tcW width attribute when it has one, and its text.
Cell(w, text) == [w |-> w, text |-> text]

\* A table row: its w:trHeight element when it has one, and its cells.
Row(height, cells) == [height |-> height, cells |-> cells]

\* A w:trHeight element: its w:val and w:hRule attributes.
TrHeight(val, hRule) == [val |-> val, hRule |-> hRule]

\* A table: its w:tblGrid when it has one (the w:w of each w:gridCol), its rows.
Table(grid, rows) == [k |-> "tbl", grid |-> grid, rows |-> rows]

Docx(header, footer, body) ==
    [t |-> "docx", header |-> header, footer |-> footer, body |-> body]

\* Document(): the default template, an empty body without header or footer.
Document == Docx(None, None, <<>>)

\* doc.add_paragraph(text, style): a paragraph at the end of the body, with
\* one run when text is not empty.
add_paragraph(doc, text, style) ==
    [doc EXCEPT !.body = Append(@,
        Para(style, None, IF text = "" THEN <<>> ELSE <<Run(text, FALSE, FALSE)>>))]

\* Width in EMU of the text block of the default letter page (12240 twips)
\* between margins of Cm(1.9), as python-docx reads them back (1077 twips).
BlockWidthEmu == 6404610

\* The width python-docx gives each column of a new table, as the twips string
\* it writes to w:gridCol and w:tcW.
DefaultColWidth(cols) ==
    IF cols = 0 THEN "0" ELSE ToString(((BlockWidthEmu \div cols) + 317) \div 635)

\* The table doc.add_table(rows, cols) builds: every column and cell of the
\* default width, no row height, every cell empty.
new_table(rows, cols) ==
    Table(Some([c \in 1..cols |-> DefaultColWidth(cols)]),
          [r \in 1..rows |->
              Row(Absent, [c \in 1..cols |-> Cell(Some(DefaultColWidth(cols)), "")])])

\* The block is put at the end of the body.
add_block(doc, block) == [doc EXCEPT !.body = Append(@, block)]

(***************************************************************************)
(* create_word_document.                                                   *)
(***************************************************************************)
\* create_word_document, the body of its try block (lines 207-212).
create_word_document_try(F, T, filepath, content, fault) ==
    makedirs_and_save(F, T, filepath, add_paragraph(Document, content, "Normal"), fault,
        [success |-> TRUE, message |-> <<"Successfully created Word document">>,
         filepath |-> filepath])

\* create_word_document with its except clause (lines 204-215).
create_word_document(F, T, filepath, content, fault) ==
    LET o == create_word_document_try(F, T, filepath, content, fault) IN
    IF o.raised = None THEN o
    ELSE Return(o.fs, o.trash,
                [success |-> FALSE,
                 message |-> <<"Error creating Word document: ", ErrText(o.raised)>>,
                 filepath |-> None])

(***************************************************************************)
(* JSON values as json.loads gives them: dict, list, str, int, bool, None. *)
(***************************************************************************)
JObj(fields) == [t |-> "obj", v |-> fields]
JArr(items) == [t |-> "arr", v |-> items]
JStr(str) == [t |-> "str", v |-> str]
JNum(n) == [t |-> "num", v |-> n]
JBool(b) == [t |-> "bool", v |-> b]
JNull == [t |-> "null", v |-> None]
\* The dict without keys.
NoFields == [k \in {} |-> JNull]

\* d.get(key, default) of a dict d.
Get(d, key, default) == IF key \in DOMAIN d.v THEN d.v[key] ELSE default

\* bool(j): the truth value Python gives j in `if j:`.
Truthy(j) ==
    CASE j.t = "null" -> FALSE
      [] j.t = "bool" -> j.v
      [] j.t = "num" -> j.v # 0
      [] j.t = "str" -> j.v # ""
      [] j.t = "arr" -> j.v # <<>>
      [] j.t = "obj" -> DOMAIN j.v # {}

\* str(j) of a value written to a table cell or to an attribute.
str(j) ==
    CASE j.t = "str" -> j.v
      [] j.t = "num" -> ToString(j.v)
      [] j.t = "bool" -> IF j.v THEN "True" ELSE "False"
      [] j.t = "null" -> "None"

(***************************************************************************)
(* _parse_rich_text.  A text is scanned as its sequence of characters.     *)
(***************************************************************************)
\* "".join(chars)
RECURSIVE Join(_)
Join(chars) == IF chars = <<>> THEN "" ELSE Head(chars) \o Join(Tail(chars))

\* text[i:i+2] == '**' (i from 1)
StarsAt(chars, i) == i + 1 <= Len(chars) /\ chars[i] = "*" /\ chars[i + 1] = "*"

\* The position of the closing '**' of the shortest match of \*\*.*?\*\* that
\* starts at i, 0 when there is none ('.' does not match a line break).
ClosingAt(chars, i) ==
    LET ends == {j \in (i + 2)..Len(chars) :
                    /\ StarsAt(chars, j)
                    /\ \A k \in (i + 2)..(j - 1) : chars[k] # "\n"} IN
    IF StarsAt(chars, i) /\ ends # {} THEN CHOOSE j \in ends : \A e \in ends : j <= e ELSE 0

\* re.split(r'(\*\*.*?\*\*)', text): the parts, matches included, from the
\* scan position `from` on, `start` being where the current plain part began.
RECURSIVE re_split(_, _, _)
re_split(chars, start, from) ==
    IF from > Len(chars) THEN <<SubSeq(chars, start, Len(chars))>>
    ELSE LET j == ClosingAt(chars, from) IN
         IF j = 0 THEN re_split(chars, start, from + 1)
         ELSE <<SubSeq(chars, start, from - 1), SubSeq(chars, from, j + 1)>>
              \o re_split(chars, j + 2, j + 2)

\* part.startswith('**') and part.endswith('**')
Starred(part) == Len(part) >= 2 /\ StarsAt(part, 1) /\ StarsAt(part, Len(part) - 1)

\* part[2:-2]
Inner(part) == SubSeq(part, 3, Len(part) - 2)

\* Lines 179-198: the runs added for the parts, in order.
RECURSIVE runs_of_parts(_, _)
runs_of_parts(parts, italic) ==
    IF parts = <<>> THEN <<>>
    ELSE LET part == Head(parts) IN
         (IF Starred(part) THEN <<Run(Join(Inner(part)), TRUE, italic)>>
          ELSE IF part # <<>> THEN <<Run(Join(part), FALSE, italic)>>
          ELSE <<>>)
         \o runs_of_parts(Tail(parts), italic)

\* _parse_rich_text(paragraph, text, ...): the runs it adds to the paragraph.
parse_rich_text(chars, italic) == runs_of_parts(re_split(chars, 1, 1), italic)

(***************************************************************************)
(* create_formatted_word_document.                                         *)
(* Fonts, sizes, spacing, shading and borders are written by the code and  *)
(* read by no tool; the model keeps the texts, the bold and italic marks,  *)
(* styles, alignments and the table geometry.  The optional keys font_size,*)
(* space_after, bold, italic and the shading colours hold values of the    *)
(* type the docstring gives them.                                          *)
(***************************************************************************)
\* What rendering has come to: the document so far, or the exception raised.
Ok(doc) == [exc |-> None, doc |-> doc]
Err(exc) == [exc |-> exc, doc |-> Document]

\* The texts of the model that hold a '*', spelled out character by character.
Spelling ==
    [s \in {"a**b**c", "**", "x**"} |->
        CASE s = "a**b**c" -> <<"a", "*", "*", "b", "*", "*", "c">>
          [] s = "**" -> <<"*", "*">>
          [] s = "x**" -> <<"x", "*", "*">>]

\* The characters of a text; a text without '*' is kept in one piece.
Chars(text) ==
    IF text \in DOMAIN Spelling THEN Spelling[text]
    ELSE IF text = "" THEN <<>> ELSE <<text>>

\* '**' in text
HasStars(text) == \E i \in 1..Len(Chars(text)) : StarsAt(Chars(text), i)

\* The colour strings of the model for which int(c[0:2], 16), int(c[2:4], 16)
\* and int(c[4:6], 16) all succeed.
HexColours == {"1F4E79", "FFFFFF", "F2F2F2", "2E75B6", "D6E3F0", "FF0000", "1F4E79FF"}

\* Lines 441, 469, 508, 553: the colour is parsed without a ValueError.
ColourParses(j) == j.t = "str" /\ j.v \in HexColours

\* s.lower() of the alignment strings and of the sheet titles of the model.
lower(s) ==
    CASE s = "CENTER" -> "center"
      [] s = "Justify" -> "justify"
      [] s = "Sheet1" -> "sheet1"
      [] s = "NewSheet" -> "newsheet"
      [] s = "S" -> "s"
      [] s = "X" -> "x"
      [] s = "Y" -> "y"
      [] OTHER -> s

\* doc.add_paragraph(item, style) for a JSON value: python-docx adds a run
\* when the value is true, and raises when it is then not a string.
add_text_paragraph(doc, j, style) ==
    IF ~Truthy(j) THEN Ok(add_paragraph(doc, "", style))
    ELSE IF j.t # "str" THEN Err("TypeError")
    ELSE Ok(add_paragraph(doc, j.v, style))

\* Lines 434-444: a "heading" section.  doc.add_heading raises unless the
\* level is an integer from 0 to 9; the colour is parsed for each run.
render_heading(doc, section) ==
    LET level == Get(section, "level", JNum(1))
        text == Get(section, "text", JStr(""))
        color_hex == Get(section, "color", JStr("1F4E79")) IN
    IF level.t # "num" THEN Err("TypeError")
    ELSE IF level.v < 0 \/ level.v > 9 THEN Err("ValueError")
    ELSE LET style == IF level.v = 0 THEN "Title" ELSE "Heading " \o ToString(level.v)
             r == add_text_paragraph(doc, text, style) IN
         IF r.exc # None THEN r
         ELSE IF Truthy(text) /\ ~ColourParses(color_hex) THEN Err("ValueError")
         ELSE r

\* The alignment a paragraph section is given (lines 449-453).
alignment_of(alignment) ==
    CASE lower(alignment) = "center" -> "CENTER"
      [] lower(alignment) = "right" -> "RIGHT"
      [] lower(alignment) = "justify" -> "JUSTIFY"
      [] OTHER -> "LEFT"

\* Lines 446-471: a "paragraph" section.
render_paragraph(doc, section) ==
    LET text == Get(section, "text", JStr(""))
        alignment == Get(section, "alignment", JStr("left"))
        color_hex == Get(section, "color", JNull)
        is_italic == Get(section, "italic", JBool(FALSE))
        is_bold == Get(section, "bold", JBool(FALSE)) IN
    IF alignment.t # "str" THEN Err("AttributeError")
    ELSE IF text.t # "str" THEN Err("TypeError")
    ELSE IF Truthy(color_hex) /\ ~ColourParses(color_hex) THEN Err("ValueError")
    ELSE Ok(add_block(doc,
            Para("Normal", alignment_of(alignment.v),
                 IF HasStars(text.v) THEN parse_rich_text(Chars(text.v), Truthy(is_italic))
                 ELSE <<Run(text.v, is_bold.v, is_italic.v)>>)))

\* Lines 473-481: a "bullet_list" or "numbered_list" section, item by item.
RECURSIVE render_items(_, _, _)
render_items(doc, items, style) ==
    IF items = <<>> THEN Ok(doc)
    ELSE LET r == add_text_paragraph(doc, Head(items), style) IN
         IF r.exc # None THEN r ELSE render_items(r.doc, Tail(items), style)

render_list(doc, section, style) ==
    LET items == Get(section, "items", JArr(<<>>)) IN
    IF items.t # "arr" THEN Err("TypeError") ELSE render_items(doc, items.v, style)

\* Mutant: the new w:tblGrid is put before the one the table had, which
\* stays, and the cells keep their w:tcW.
set_table_grid_KeepOld(tbl, col_widths) ==
    [tbl EXCEPT !.grid = Some([i \in DOMAIN col_widths |-> str(col_widths[i])]) \o @]

\* _set_table_grid(table, col_widths): the grid holds str(width) of each
\* width given and every cell loses its w:tcW.
set_table_grid(tbl, col_widths) ==
    [tbl EXCEPT
        !.grid = Some([i \in DOMAIN col_widths |-> str(col_widths[i])]),
        !.rows = [r \in DOMAIN tbl.rows |->
                    [tbl.rows[r] EXCEPT
                        !.cells = [c \in DOMAIN tbl.rows[r].cells |->
                                      [tbl.rows[r].cells[c] EXCEPT !.w = Absent]]]]]

\* _set_row_height(row, height_pt, auto_fit=True) with a height given.
set_row_height(row, height_pt) ==
    [row EXCEPT !.height = Some(TrHeight(ToString(height_pt * 20), "auto"))]

\* Lines 494, 497, 513 and 535, 539: the grid and the row heights asked for.
\* table.rows[r].cells are the w:tc elements of the row itself, whatever the
\* number of w:gridCol (python-docx 1.1.1 and later).
with_geometry(tbl, col_widths, row_height) ==
    LET g == IF Truthy(col_widths) THEN set_table_grid(tbl, col_widths.v) ELSE tbl IN
    IF Truthy(row_height)
    THEN [g EXCEPT !.rows = [r \in DOMAIN g.rows |-> set_row_height(g.rows[r], row_height.v)]]
    ELSE g

\* The geometry keys raise: col_widths is not a list, row_height not a number.
geometry_raises(col_widths, row_height) ==
    \/ Truthy(col_widths) /\ col_widths.t # "arr"
    \/ Truthy(row_height) /\ row_height.t # "num"

\* Mutant: a value beyond the last cell is written over the last cell.
fill_row_Overwriting(row, row_data) ==
    [row EXCEPT !.cells = [c \in DOMAIN row.cells |->
        IF c = Len(row.cells) /\ Len(row_data) > c
        THEN [row.cells[c] EXCEPT !.text = str(row_data[Len(row_data)])]
        ELSE IF c <= Len(row_data) THEN [row.cells[c] EXCEPT !.text = str(row_data[c])]
        ELSE row.cells[c]]]

\* cell.text = str(cell_value) for the values of row_data that have a cell.
fill_row(row, row_data) ==
    [row EXCEPT !.cells = [c \in DOMAIN row.cells |->
        IF c <= Len(row_data) THEN [row.cells[c] EXCEPT !.text = str(row_data[c])]
        ELSE row.cells[c]]]

\* Lines 483-523: a "table" section.
render_table(doc, section) ==
    LET headers == Get(section, "headers", JArr(<<>>))
        rows == Get(section, "rows", JArr(<<>>))
        header_text_color == Get(section, "header_text_color", JStr("FFFFFF"))
        row_height == Get(section, "row_height", JNull)
        col_widths == Get(section, "col_widths", JNull) IN
    IF ~Truthy(headers) THEN Ok(doc)
    ELSE IF headers.t # "arr" \/ rows.t # "arr" THEN Err("TypeError")
    ELSE IF geometry_raises(col_widths, row_height) THEN Err("TypeError")
    ELSE IF ~ColourParses(header_text_color) THEN Err("ValueError")
    ELSE IF \E r \in DOMAIN rows.v : rows.v[r].t # "arr" THEN Err("TypeError")
    ELSE LET table == with_geometry(new_table(1 + Len(rows.v), Len(headers.v)),
                                    col_widths, row_height)
             filled == [table EXCEPT !.rows = [r \in DOMAIN table.rows |->
                          IF r = 1 THEN fill_row(table.rows[1], headers.v)
                          ELSE fill_row(table.rows[r], rows.v[r - 1].v)]] IN
         Ok(add_paragraph(add_block(doc, filled), "", "Normal"))

\* Lines 525-566: a "key_value_table" section.
render_key_value_table(doc, section) ==
    LET rows == Get(section, "rows", JArr(<<>>))
        first_cell_text == Get(section, "first_cell_text_color", JStr("FFFFFF"))
        col_widths == Get(section, "col_widths", JNull)
        row_height == Get(section, "row_height", JNull) IN
    IF ~Truthy(rows) THEN Ok(doc)
    ELSE IF rows.t # "arr" THEN Err("TypeError")
    ELSE IF \E r \in DOMAIN rows.v : rows.v[r].t # "arr" THEN Err("TypeError")
    ELSE IF geometry_raises(col_widths, row_height) THEN Err("TypeError")
    ELSE IF Len(rows.v[1].v) > 0 /\ ~ColourParses(first_cell_text) THEN Err("ValueError")
    ELSE LET table == with_geometry(new_table(Len(rows.v), Len(rows.v[1].v)),
                                    col_widths, row_height)
             filled == [table EXCEPT !.rows = [r \in DOMAIN table.rows |->
                          fill_row(table.rows[r], rows.v[r].v)]] IN
         Ok(add_paragraph(add_block(doc, filled), "", "Normal"))

\* doc.add_page_break(): a paragraph whose run holds a page break.
PageBreak == Para("Normal", None, <<[text |-> "", bold |-> FALSE, italic |-> FALSE, break |-> "page"]>>)

\* Mutant: a section whose type has no branch raises.
render_section_Strict(doc, section) ==
    IF section.t # "obj" THEN Err("AttributeError")
    ELSE LET section_type == Get(section, "type", JNull) IN
         CASE section_type = JStr("heading") -> render_heading(doc, section)
           [] section_type = JStr("paragraph") -> render_paragraph(doc, section)
           [] section_type = JStr("bullet_list") -> render_list(doc, section, "List Bullet")
           [] section_type = JStr("numbered_list") -> render_list(doc, section, "List Number")
           [] section_type = JStr("table") -> render_table(doc, section)
           [] section_type = JStr("key_value_table") -> render_key_value_table(doc, section)
           [] section_type = JStr("page_break") -> Ok(add_block(doc, PageBreak))
           [] section_type = JStr("spacer") -> Ok(add_paragraph(doc, "", "Normal"))
           [] OTHER -> Err("ValueError")

\* Lines 432-572: one section, by its type.
render_section(doc, section) ==
    IF section.t # "obj" THEN Err("AttributeError")
    ELSE LET section_type == Get(section, "type", JNull) IN
         CASE section_type = JStr("heading") -> render_heading(doc, section)
           [] section_type = JStr("paragraph") -> render_paragraph(doc, section)
           [] section_type = JStr("bullet_list") -> render_list(doc, section, "List Bullet")
           [] section_type = JStr("numbered_list") -> render_list(doc, section, "List Number")
           [] section_type = JStr("table") -> render_table(doc, section)
           [] section_type = JStr("key_value_table") -> render_key_value_table(doc, section)
           [] section_type = JStr("page_break") -> Ok(add_block(doc, PageBreak))
           [] section_type = JStr("spacer") -> Ok(add_paragraph(doc, "", "Normal"))
           [] OTHER -> Ok(doc)

\* Mutant: a section that raises is skipped and the loop goes on.
RECURSIVE render_sections_SkipFailing(_, _)
render_sections_SkipFailing(doc, sections) ==
    IF sections = <<>> THEN Ok(doc)
    ELSE LET r == render_section(doc, Head(sections)) IN
         render_sections_SkipFailing(IF r.exc # None THEN doc ELSE r.doc, Tail(sections))

\* Line 431: the sections in order; the first exception ends the loop.
RECURSIVE render_sections(_, _)
render_sections(doc, sections) ==
    IF sections = <<>> THEN Ok(doc)
    ELSE LET r == render_section(doc, Head(sections)) IN
         IF r.exc # None THEN r ELSE render_sections(r.doc, Tail(sections))

\* header_para.text = data["header"], title_para.add_run(data["title"]): the
\* value is true; python-docx raises unless it is a string.
text_raises(j) == Truthy(j) /\ j.t # "str"

\* Lines 389-410: the header and footer texts, when given and true.
with_header_footer(doc, data) ==
    LET header == Get(data, "header", JNull)
        footer == Get(data, "footer", JNull) IN
    [doc EXCEPT !.header = IF Truthy(header) THEN header.v ELSE @,
                !.footer = IF Truthy(footer) THEN footer.v ELSE @]

\* Lines 412-429: the title and subtitle paragraphs, when given and true.
with_titles(doc, data) ==
    LET title == Get(data, "title", JNull)
        subtitle == Get(data, "subtitle", JNull)
        d1 == IF Truthy(title)
              THEN add_block(doc, Para("Normal", "CENTER", <<Run(title.v, TRUE, FALSE)>>))
              ELSE doc IN
    IF Truthy(subtitle)
    THEN add_block(d1, Para("Normal", "CENTER", <<Run(subtitle.v, FALSE, TRUE)>>))
    ELSE d1

\* Mutant: the body is rendered from "content" when "sections" is missing.
sections_of_OrContent(data) == Get(data, "sections", Get(data, "content", JArr(<<>>)))

\* data.get("sections", [])
sections_of(data) == Get(data, "sections", JArr(<<>>))

\* Lines 377-572: the document built from the parsed data.  The loop over
\* "sections" raises on a value that cannot be iterated, and on an element
\* that has no get (a character of a string, a key of a dict).
render_document(data) ==
    IF data.t # "obj" THEN Err("AttributeError")
    ELSE IF \E key \in {"header", "footer", "title", "subtitle"} :
                text_raises(Get(data, key, JNull))
    THEN Err("TypeError")
    ELSE LET sections == sections_of(data)
             doc == with_titles(with_header_footer(Document, data), data) IN
         CASE sections.t = "arr" -> render_sections(doc, sections.v)
           [] sections.t \in {"str", "obj"} ->
                IF Truthy(sections) THEN Err("AttributeError") ELSE Ok(doc)
           [] OTHER -> Err("TypeError")

\* The document_data strings of the model and what json.loads makes of each:
\* ok with the value, or not ok for a JSONDecodeError.
Parsed(v) == [ok |-> TRUE, v |-> v]
JSONDecodeError == [ok |-> FALSE, v |-> JNull]

HelloParagraph == JObj([type |-> JStr("paragraph"), text |-> JStr("Hello")])

TableAB(rows) ==
    JObj([type |-> JStr("table"), headers |-> JArr(<<JStr("A"), JStr("B")>>), rows |-> JArr(rows)])

KeyValueKV(row_height) ==
    JObj([type |-> JStr("key_value_table"), rows |-> JArr(<<JArr(<<JStr("K"), JStr("V")>>)>>),
          row_height |-> JNum(row_height)])

json_loads(document_data) ==
    CASE document_data = "not valid json" -> JSONDecodeError
      [] document_data = "{\"sections\": [" -> JSONDecodeError
      [] document_data = "a,b\n1,2" -> JSONDecodeError
      [] document_data = "5" -> Parsed(JNum(5))
      [] document_data = "[[\"a\", \"b\"], [1, 2]]" ->
            Parsed(JArr(<<JArr(<<JStr("a"), JStr("b")>>), JArr(<<JNum(1), JNum(2)>>)>>))
      [] document_data = "{}" -> Parsed(JObj(NoFields))
      [] document_data = "[]" -> Parsed(JArr(<<>>))
      [] document_data = "{\"content\": [{\"type\": \"paragraph\", \"text\": \"Hello\"}]}" ->
            Parsed(JObj([content |-> JArr(<<HelloParagraph>>)]))
      [] document_data = "{\"title\": \"T\", \"header\": \"H\", \"content\": [{\"type\": \"paragraph\", \"text\": \"Hello\"}]}" ->
            Parsed(JObj([title |-> JStr("T"), header |-> JStr("H"),
                         content |-> JArr(<<HelloParagraph>>)]))
      [] document_data = "{\"title\": 5}" -> Parsed(JObj([title |-> JNum(5)]))
      [] document_data = "{\"sections\": [{\"type\": \"paragraph\", \"text\": \"Hello\"}]}" ->
            Parsed(JObj([sections |-> JArr(<<HelloParagraph>>)]))
      [] document_data = "{\"sections\": [\"x\"]}" ->
            Parsed(JObj([sections |-> JArr(<<JStr("x")>>)]))
      [] document_data = "{\"sections\": [{\"type\": \"table\", \"headers\": [\"A\", \"B\"], \"rows\": [[\"1\", \"2\"]]}]}" ->
            Parsed(JObj([sections |-> JArr(<<TableAB(<<JArr(<<JStr("1"), JStr("2")>>)>>)>>)]))
      [] document_data = "{\"sections\": [{\"type\": \"table\", \"headers\": [\"A\", \"B\"], \"rows\": [[\"1\", \"2\"], [\"3\", \"4\"]]}, {\"type\": \"key_value_table\", \"rows\": [[\"K\", \"V\"]], \"col_widths\": [3000, 6000], \"row_height\": 10}]}" ->
            Parsed(JObj([sections |-> JArr(<<
                TableAB(<<JArr(<<JStr("1"), JStr("2")>>), JArr(<<JStr("3"), JStr("4")>>)>>),
                JObj([type |-> JStr("key_value_table"),
                      rows |-> JArr(<<JArr(<<JStr("K"), JStr("V")>>)>>),
                      col_widths |-> JArr(<<JNum(3000), JNum(6000)>>),
                      row_height |-> JNum(10)])>>)]))
      [] document_data = "{\"sections\": [{\"type\": \"key_value_table\", \"rows\": [[\"K\", \"V\"]], \"row_height\": 10}]}" ->
            Parsed(JObj([sections |-> JArr(<<KeyValueKV(10)>>)]))
      [] document_data = "{\"sections\": [{\"type\": \"key_value_table\", \"rows\": [[\"K\", \"V\"]], \"row_height\": 20}]}" ->
            Parsed(JObj([sections |-> JArr(<<KeyValueKV(20)>>)]))
      [] document_data = "{\"sections\": [{\"type\": \"table\", \"headers\": [], \"rows\": [[\"1\", \"2\"]]}]}" ->
            Parsed(JObj([sections |-> JArr(<<
                JObj([type |-> JStr("table"), headers |-> JArr(<<>>),
                      rows |-> JArr(<<JArr(<<JStr("1"), JStr("2")>>)>>)])>>)]))
      [] document_data = "{\"sections\": [{\"type\": \"paragraph\", \"text\": \"Hello\"}, {\"type\": \"heading\", \"text\": \"H\", \"color\": \"GGGGGG\"}]}" ->
            Parsed(JObj([sections |-> JArr(<<HelloParagraph,
                JObj([type |-> JStr("heading"), text |-> JStr("H"), color |-> JStr("GGGGGG")])>>)]))
      [] document_data = "{\"sections\": [{\"type\": \"paragraph\", \"text\": \"Hello\"}, {\"type\": \"heading\", \"text\": \"H\", \"level\": 10}]}" ->
            Parsed(JObj([sections |-> JArr(<<HelloParagraph,
                JObj([type |-> JStr("heading"), text |-> JStr("H"), level |-> JNum(10)])>>)]))
      [] document_data = "{\"sections\": [{\"type\": \"heading\", \"text\": \"H\", \"color\": \"1F4E79FF\"}]}" ->
            Parsed(JObj([sections |-> JArr(<<
                JObj([type |-> JStr("heading"), text |-> JStr("H"),
                      color |-> JStr("1F4E79FF")])>>)]))
      [] document_data = "{\"sections\": [{\"type\": \"table\", \"headers\": [\"A\", \"B\"], \"rows\": [[\"1\", \"2\", \"3\"], [\"4\"], []]}]}" ->
            Parsed(
                JObj([sections |-> JArr(<<JObj([type |-> JStr("table"), headers |->
                JArr(<<JStr("A"), JStr("B")>>), rows |-> JArr(<<JArr(<<JStr("1"),
                JStr("2"), JStr("3")>>), JArr(<<JStr("4")>>), JArr(<<>>)>>)])>>)]))
      [] document_data = "{\"sections\": [{\"type\": \"table\", \"rows\": [[\"1\", \"2\"]]}]}" ->
            Parsed(
                JObj([sections |-> JArr(<<JObj([type |-> JStr("table"), rows |->
                JArr(<<JArr(<<JStr("1"), JStr("2")>>)>>)])>>)]))
      [] document_data = "{\"sections\": [{\"type\": \"key_value_table\", \"rows\": [[\"K\", \"V\"], [\"K2\", \"V2\", \"X\"], [\"K3\"]]}]}" ->
            Parsed(
                JObj([sections |-> JArr(<<JObj([type |-> JStr("key_value_table"),
                rows |-> JArr(<<JArr(<<JStr("K"), JStr("V")>>), JArr(<<JStr("K2"),
                JStr("V2"), JStr("X")>>), JArr(<<JStr("K3")>>)>>)])>>)]))
      [] document_data = "{\"sections\": [{\"type\": \"table\", \"headers\": [\"A\", 1], \"rows\": [[2, true], [null]]}]}" ->
            Parsed(
                JObj([sections |-> JArr(<<JObj([type |-> JStr("table"), headers |->
                JArr(<<JStr("A"), JNum(1)>>), rows |-> JArr(<<JArr(<<JNum(2),
                JBool(TRUE)>>), JArr(<<JNull>>)>>)])>>)]))
      [] document_data = "{\"sections\": [{\"type\": \"table\", \"headers\": [\"A\", \"B\"], \"rows\": [[\"1\", \"2\"]], \"col_widths\": [3000, 6000]}]}" ->
            Parsed(
                JObj([sections |-> JArr(<<JObj([type |-> JStr("table"), headers |->
                JArr(<<JStr("A"), JStr("B")>>), rows |-> JArr(<<JArr(<<JStr("1"),
                JStr("2")>>)>>), col_widths |-> JArr(<<JNum(3000),
                JNum(6000)>>)])>>)]))
      [] document_data = "{\"sections\": [{\"type\": \"table\", \"headers\": [\"A\", \"B\"], \"rows\": [[\"1\", \"2\"]], \"col_widths\": [3000, 6000, 400]}]}" ->
            Parsed(
                JObj([sections |-> JArr(<<JObj([type |-> JStr("table"), headers |->
                JArr(<<JStr("A"), JStr("B")>>), rows |-> JArr(<<JArr(<<JStr("1"),
                JStr("2")>>)>>), col_widths |-> JArr(<<JNum(3000), JNum(6000),
                JNum(400)>>)])>>)]))
      [] document_data = "{\"sections\": [{\"type\": \"key_value_table\", \"rows\": [[\"K\", \"V\"]], \"col_widths\": [3000], \"row_height\": 10}]}" ->
            Parsed(
                JObj([sections |-> JArr(<<JObj([type |-> JStr("key_value_table"),
                rows |-> JArr(<<JArr(<<JStr("K"), JStr("V")>>)>>), col_widths |->
                JArr(<<JNum(3000)>>), row_height |-> JNum(10)])>>)]))
      [] document_data = "{\"sections\": [{\"type\": \"table\", \"headers\": [\"A\", \"B\"], \"rows\": [[\"1\", \"2\"]], \"col_widths\": []}]}" ->
            Parsed(
                JObj([sections |-> JArr(<<JObj([type |-> JStr("table"), headers |->
                JArr(<<JStr("A"), JStr("B")>>), rows |-> JArr(<<JArr(<<JStr("1"),
                JStr("2")>>)>>), col_widths |-> JArr(<<>>)])>>)]))
      [] document_data = "{\"sections\": [{\"type\": \"paragraph\", \"text\": \"A\"}, {\"type\": \"chart\", \"text\": \"X\"}, {\"text\": \"untyped\"}, {\"type\": \"Heading\", \"text\": \"H\"}, {\"type\": \"paragraph\", \"text\": \"B\"}]}" ->
            Parsed(
                JObj([sections |-> JArr(<<JObj([type |-> JStr("paragraph"), text |->
                JStr("A")]), JObj([type |-> JStr("chart"), text |-> JStr("X")]),
                JObj([text |-> JStr("untyped")]), JObj([type |-> JStr("Heading"),
                text |-> JStr("H")]), JObj([type |-> JStr("paragraph"), text |->
                JStr("B")])>>)]))
      [] document_data = "{\"sections\": [{\"type\": \"chart\"}]}" ->
            Parsed(
                JObj([sections |-> JArr(<<JObj([type |-> JStr("chart")])>>)]))
      [] document_data = "{\"sections\": [{\"type\": \"paragraph\", \"text\": \"A\"}, {\"type\": \"spacer\"}, {\"type\": \"paragraph\", \"text\": \"B\"}]}" ->
            Parsed(
                JObj([sections |-> JArr(<<JObj([type |-> JStr("paragraph"), text |->
                JStr("A")]), JObj([type |-> JStr("spacer")]), JObj([type |->
                JStr("paragraph"), text |-> JStr("B")])>>)]))
      [] document_data = "{\"sections\": [{\"type\": \"paragraph\", \"text\": \"A\", \"alignment\": \"middle\"}, {\"type\": \"paragraph\", \"text\": \"B\", \"alignment\": \"Justify\"}]}" ->
            Parsed(
                JObj([sections |-> JArr(<<JObj([type |-> JStr("paragraph"), text |->
                JStr("A"), alignment |-> JStr("middle")]), JObj([type |->
                JStr("paragraph"), text |-> JStr("B"), alignment |->
                JStr("Justify")])>>)]))
      [] document_data = "{\"sections\": [{\"type\": \"chart\"}, {\"type\": \"heading\", \"text\": \"H\", \"level\": 10}]}" ->
            Parsed(
                JObj([sections |-> JArr(<<JObj([type |-> JStr("chart")]), JObj([type
                |-> JStr("heading"), text |-> JStr("H"), level |-> JNum(10)])>>)]))
      [] document_data = "{\"title\": \"T\", \"sections\": [{\"type\": \"heading\", \"level\": 2, \"text\": \"Intro\"}, {\"type\": \"paragraph\", \"text\": \"a**b**c\", \"alignment\": \"CENTER\"}, {\"type\": \"bullet_list\", \"items\": [\"P\", \"Q\"]}, {\"type\": \"page_break\"}, {\"type\": \"numbered_list\", \"items\": [\"N\"]}, {\"type\": \"spacer\"}]}" ->
            Parsed(JObj([title |-> JStr("T"), sections |-> JArr(<<
                JObj([type |-> JStr("heading"), level |-> JNum(2), text |-> JStr("Intro")]),
                JObj([type |-> JStr("paragraph"), text |-> JStr("a**b**c"),
                      alignment |-> JStr("CENTER")]),
                JObj([type |-> JStr("bullet_list"), items |-> JArr(<<JStr("P"), JStr("Q")>>)]),
                JObj([type |-> JStr("page_break")]),
                JObj([type |-> JStr("numbered_list"), items |-> JArr(<<JStr("N")>>)]),
                JObj([type |-> JStr("spacer")])>>)]))

\* Mutant: the parent directory is made before document_data is parsed.
create_formatted_word_document_try_MakedirsFirst(F, T, filepath, document_data, fault) ==
    LET parsed == json_loads(document_data)
        G == IF makedirs_raises(F, filepath) THEN F ELSE makedirs(F, filepath) IN
    IF ~parsed.ok
    THEN Return(G, T, [success |-> FALSE,
                       message |-> <<"Invalid JSON format: ", ErrText("JSONDecodeError")>>,
                       filepath |-> None])
    ELSE LET r == render_document(parsed.v) IN
         IF r.exc # None THEN Raise(G, T, r.exc)
         ELSE makedirs_and_save(F, T, filepath, r.doc, fault,
                [success |-> TRUE, message |-> <<"Successfully created formatted Word document">>,
                 filepath |-> filepath])

\* create_formatted_word_document, the body of its outer try block (lines 372-578).
create_formatted_word_document_try(F, T, filepath, document_data, fault) ==
    LET parsed == json_loads(document_data) IN
    IF ~parsed.ok
    THEN Return(F, T, [success |-> FALSE,
                       message |-> <<"Invalid JSON format: ", ErrText("JSONDecodeError")>>,
                       filepath |-> None])
    ELSE LET r == render_document(parsed.v) IN
         IF r.exc # None THEN Raise(F, T, r.exc)
         ELSE makedirs_and_save(F, T, filepath, r.doc, fault,
                [success |-> TRUE, message |-> <<"Successfully created formatted Word document">>,
                 filepath |-> filepath])

\* create_formatted_word_document with its except clause (lines 347-581).
create_formatted_word_document(F, T, filepath, document_data, fault) ==
    LET o == create_formatted_word_document_try(F, T, filepath, document_data, fault) IN
    IF o.raised = None THEN o
    ELSE Return(o.fs, o.trash,
                [success |-> FALSE,
                 message |-> <<"Error creating formatted Word document: ", ErrText(o.raised)>>,
                 filepath |-> None])

(***************************************************************************)
(* read_word_document_structure.                                           *)
(***************************************************************************)
\* The integers the attributes of the documents of the model spell out.
Numerals ==
    {0, 1, 2, 3, 10, 200, 300, 400, 3000, 6000} \cup {((BlockWidthEmu \div c) + 317) \div 635 : c \in 1..4}

\* int(s) succeeds: s spells an integer.
IsInt(s) == \E n \in Numerals : ToString(n) = s

\* int(s)
int(s) == CHOOSE n \in Numerals : ToString(n) = s

SeqToSet(q) == {q[i] : i \in DOMAIN q}

\* The tables of a document in document order: root.findall('.//w:tbl').
RECURSIVE Tables(_)
Tables(body) ==
    IF body = <<>> THEN <<>>
    ELSE IF Head(body).k = "tbl" THEN <<Head(body)>> \o Tables(Tail(body))
    ELSE Tables(Tail(body))

\* Every attribute that lines 247, 265 and 276 pass to int() spells an integer.
TableParses(tbl) ==
    /\ tbl.grid # Absent => \A i \in DOMAIN tbl.grid[1] : IsInt(tbl.grid[1][i])
    /\ \A j \in DOMAIN tbl.rows :
        /\ (tbl.rows[j].height # Absent /\ tbl.rows[j].height[1].val \notin {None, ""})
               => IsInt(tbl.rows[j].height[1].val)
        /\ \A c \in DOMAIN tbl.rows[j].cells :
               tbl.rows[j].cells[c].w # Absent => IsInt(tbl.rows[j].cells[c].w[1])

\* Mutant: has_explicit_row_heights is set only by a w:trHeight that has a val.
table_info_ValOnly(i, tbl) ==
    [table_index |-> i,
     column_widths |->
        IF tbl.grid = Absent THEN <<>> ELSE [c \in DOMAIN tbl.grid[1] |-> int(tbl.grid[1][c])],
     column_widths_source |-> IF tbl.grid = Absent THEN None ELSE "tblGrid",
     row_count |-> Len(tbl.rows),
     row_heights |->
        [j \in DOMAIN tbl.rows |->
            LET h == tbl.rows[j].height IN
            [row_index |-> j - 1,
             height |-> IF h = Absent \/ h[1].val \in {None, ""} THEN Absent
                        ELSE Some(int(h[1].val)),
             height_rule |-> IF h = Absent THEN None ELSE h[1].hRule]],
     has_explicit_row_heights |->
        \E j \in DOMAIN tbl.rows :
            tbl.rows[j].height # Absent /\ tbl.rows[j].height[1].val \notin {None, ""},
     cell_widths |->
        [j \in DOMAIN tbl.rows |->
            [c \in DOMAIN tbl.rows[j].cells |->
                LET w == tbl.rows[j].cells[c].w IN
                IF w = Absent THEN Absent ELSE Some(int(w[1]))]]]

\* Lines 237-283: the table_info dict of the i-th table.
table_info(i, tbl) ==
    [table_index |-> i,
     column_widths |->
        IF tbl.grid = Absent THEN <<>> ELSE [c \in DOMAIN tbl.grid[1] |-> int(tbl.grid[1][c])],
     column_widths_source |-> IF tbl.grid = Absent THEN None ELSE "tblGrid",
     row_count |-> Len(tbl.rows),
     row_heights |->
        [j \in DOMAIN tbl.rows |->
            LET h == tbl.rows[j].height IN
            [row_index |-> j - 1,
             height |-> IF h = Absent \/ h[1].val \in {None, ""} THEN Absent
                        ELSE Some(int(h[1].val)),
             height_rule |-> IF h = Absent THEN None ELSE h[1].hRule]],
     has_explicit_row_heights |-> \E j \in DOMAIN tbl.rows : tbl.rows[j].height # Absent,
     cell_widths |->
        [j \in DOMAIN tbl.rows |->
            [c \in DOMAIN tbl.rows[j].cells |->
                LET w == tbl.rows[j].cells[c].w IN
                IF w = Absent THEN Absent ELSE Some(int(w[1]))]]]

\* The number of w:p elements of the body: its paragraphs and the one
\* paragraph of each table cell.
RECURSIVE CountParagraphs(_)
CountParagraphs(body) ==
    IF body = <<>> THEN 0
    ELSE (IF Head(body).k = "p" THEN 1
          ELSE LET rows == Head(body).rows
                   RECURSIVE cells(_)
                   cells(j) == IF j = 0 THEN 0 ELSE Len(rows[j].cells) + cells(j - 1)
               IN cells(Len(rows)))
         + CountParagraphs(Tail(body))

\* Document(p), the exception it raises or None.  python-docx takes a
\* directory for an unpacked package and finds no [Content_Types].xml in it,
\* takes a zip file that is no Word file for a package of the wrong content
\* type, and finds no package in anything else, a missing path included.
Document_raises(F, p) ==
    CASE ~exists(F, p) -> "PackageNotFoundError"
      [] isdir(F, p) -> "FileNotFoundError"
      [] F[p].data.t = "docx" -> None
      [] F[p].data.t = "xlsx" -> "ValueError"
      [] OTHER -> "PackageNotFoundError"

\* Lines 227-228: zipfile.ZipFile(p) and zf.open('word/document.xml'), the
\* exception they raise or None.  A workbook is an archive without that member.
ZipFile_raises(F, p) ==
    CASE ~exists(F, p) -> "FileNotFoundError"
      [] isdir(F, p) -> "IsADirectoryError"
      [] F[p].data.t = "docx" -> None
      [] F[p].data.t = "xlsx" -> "KeyError"
      [] OTHER -> "BadZipFile"

\* read_word_document_structure, the body of its try block (lines 222-291).
read_word_document_structure_try(F, T, filepath, fault) ==
    IF Fails(fault, "open") /\ exists(F, filepath) THEN Raise(F, T, fault.exc)
    ELSE IF ZipFile_raises(F, filepath) # None THEN Raise(F, T, ZipFile_raises(F, filepath))
    ELSE LET doc == F[filepath].data
             tables == Tables(doc.body) IN
         IF \E i \in DOMAIN tables : ~TableParses(tables[i]) THEN Raise(F, T, "ValueError")
         ELSE Return(F, T,
                [success |-> TRUE, filepath |-> filepath, tables_count |-> Len(tables),
                 tables |-> [i \in DOMAIN tables |-> table_info(i, tables[i])],
                 paragraphs_count |-> CountParagraphs(doc.body),
                 has_header |-> doc.header # None, has_footer |-> doc.footer # None])

\* read_word_document_structure with its except clause (lines 219-295).
read_word_document_structure(F, T, filepath, fault) ==
    LET o == read_word_document_structure_try(F, T, filepath, fault) IN
    IF o.raised = None THEN o
    ELSE Return(o.fs, o.trash,
                [success |-> FALSE,
                 message |-> <<"Error analyzing Word document: ", ErrText(o.raised)>>,
                 filepath |-> filepath])

(***************************************************************************)
(* compare_word_documents.                                                 *)
(***************************************************************************)
\* min(a, b)
min(a, b) == IF a < b THEN a ELSE b

\* Lines 317-330: the table_diffs dict of the tables at position i.
table_diffs(i, t1, t2) ==
    [table_index |-> i,
     differences |->
        (IF t1.column_widths # t2.column_widths
         THEN <<[property |-> "column_widths", doc1 |-> t1.column_widths,
                 doc2 |-> t2.column_widths, doc1_source |-> t1.column_widths_source,
                 doc2_source |-> t2.column_widths_source]>>
         ELSE <<>>)
        \o (IF t1.has_explicit_row_heights # t2.has_explicit_row_heights
            THEN <<[property |-> "has_explicit_row_heights",
                    doc1 |-> t1.has_explicit_row_heights,
                    doc2 |-> t2.has_explicit_row_heights]>>
            ELSE <<>>)
        \o (IF t1.row_count # t2.row_count
            THEN <<[property |-> "row_count", doc1 |-> t1.row_count, doc2 |-> t2.row_count]>>
            ELSE <<>>)]

\* Mutant: the tables_count entry is not recorded.
tables_count_difference_Dropped(doc1, doc2) == <<>>

\* Lines 311-312: the entry for differing numbers of tables.
tables_count_difference(doc1, doc2) ==
    IF doc1.tables_count # doc2.tables_count
    THEN <<[type |-> "tables_count", doc1 |-> doc1.tables_count, doc2 |-> doc2.tables_count]>>
    ELSE <<>>

\* Mutant: every table_diffs dict is appended, with or without differences.
RECURSIVE table_differences_All(_, _, _)
table_differences_All(doc1, doc2, n) ==
    IF n = 0 THEN <<>>
    ELSE Append(table_differences_All(doc1, doc2, n - 1),
                table_diffs(n, doc1.tables[n], doc2.tables[n]))

\* Lines 315-333: the entries of the first n table positions, in order; a
\* position is entered when its table_diffs has differences.
RECURSIVE table_differences(_, _, _)
table_differences(doc1, doc2, n) ==
    IF n = 0 THEN <<>>
    ELSE LET d == table_diffs(n, doc1.tables[n], doc2.tables[n]) IN
         table_differences(doc1, doc2, n - 1)
         \o (IF d.differences # <<>> THEN <<d>> ELSE <<>>)

\* Lines 309-339: the result for two documents that were read.
comparison(filepath1, filepath2, doc1, doc2) ==
    LET differences ==
            tables_count_difference(doc1, doc2)
            \o table_differences(doc1, doc2, min(doc1.tables_count, doc2.tables_count))
        is_identical == Len(differences) = 0 IN
    [success |-> TRUE, is_identical |-> is_identical,
     filepath1 |-> filepath1, filepath2 |-> filepath2, differences |-> differences,
     summary |-> IF is_identical THEN <<"Documents are identical in structure">>
                 ELSE <<"Found ", ToString(Len(differences)), " difference(s)">>]

\* The fault of the read of one of the two documents.
ReadFault(fault, site) == IF Fails(fault, site) THEN Fault("open", fault.exc) ELSE NoFault

\* doc.get("message")
get_message(doc) == IF "message" \in DOMAIN doc THEN doc.message ELSE None

\* compare_word_documents, the body of its try block (lines 302-339).
compare_word_documents_try(F, T, filepath1, filepath2, fault) ==
    LET doc1 == read_word_document_structure(F, T, filepath1, ReadFault(fault, "open1")).ret
        doc2 == read_word_document_structure(F, T, filepath2, ReadFault(fault, "open2")).ret IN
    IF ~doc1.success \/ ~doc2.success
    THEN Return(F, T, [success |-> FALSE, message |-> <<"Failed to read one or both documents">>,
                       doc1_error |-> get_message(doc1), doc2_error |-> get_message(doc2)])
    ELSE Return(F, T, comparison(filepath1, filepath2, doc1, doc2))

\* compare_word_documents with its except clause (lines 299-343).
compare_word_documents(F, T, filepath1, filepath2, fault) ==
    LET o == compare_word_documents_try(F, T, filepath1, filepath2, fault) IN
    IF o.raised = None THEN o
    ELSE Return(o.fs, o.trash,
                [success |-> FALSE,
                 message |-> <<"Error comparing Word documents: ", ErrText(o.raised)>>])

(***************************************************************************)
(* Exceptions.  `except Exception` catches every exception but those that  *)
(* derive from BaseException alone.                                        *)
(***************************************************************************)
BaseExceptions == {"SystemExit", "KeyboardInterrupt", "GeneratorExit"}

\* try: ... except Exception as e: return dict
except_Exception(o, dict) ==
    IF o.raised = None \/ o.raised \in BaseExceptions THEN o
    ELSE Return(o.fs, o.trash, dict)

(***************************************************************************)
(* edit_word_document.  The operations of the model give "index" and       *)
(* "level" an integer or null.                                             *)
(***************************************************************************)
\* doc.paragraphs: the positions in the body of its paragraphs, in order.
RECURSIVE paragraphs_from(_, _)
paragraphs_from(body, i) ==
    IF i > Len(body) THEN <<>>
    ELSE (IF body[i].k = "p" THEN <<i>> ELSE <<>>) \o paragraphs_from(body, i + 1)

paragraphs(doc) == paragraphs_from(doc.body, 1)

\* The sequence without its i-th element.
Remove(q, i) == SubSeq(q, 1, i - 1) \o SubSeq(q, i + 1, Len(q))

\* Line 598: doc.add_heading(text, level).
edit_add_heading(doc, op) ==
    LET level == Get(op, "level", JNum(1)) IN
    IF level.t # "num" THEN Err("TypeError")
    ELSE IF level.v < 0 \/ level.v > 9 THEN Err("ValueError")
    ELSE add_text_paragraph(doc, Get(op, "text", JStr("")),
                            IF level.v = 0 THEN "Title" ELSE "Heading " \o ToString(level.v))

\* Lines 600-602: the text of the paragraph at idx is replaced by one run.
edit_paragraph(doc, op) ==
    LET idx == Get(op, "index", JNum(0))
        text == Get(op, "text", JStr("")) IN
    IF idx.t # "num" THEN Err("TypeError")
    ELSE IF ~(0 <= idx.v /\ idx.v < Len(paragraphs(doc))) THEN Ok(doc)
    ELSE IF text_raises(text) THEN Err("TypeError")
    ELSE Ok([doc EXCEPT !.body[paragraphs(doc)[idx.v + 1]].runs =
                            <<Run(IF Truthy(text) THEN text.v ELSE "", FALSE, FALSE)>>])

\* Mutant: the index is not checked against the paragraph list; one that is
\* out of range raises.
delete_paragraph_Unchecked(doc, op) ==
    LET idx == Get(op, "index", JNum(0)) IN
    IF idx.t # "num" THEN Err("TypeError")
    ELSE IF ~(0 <= idx.v /\ idx.v < Len(paragraphs(doc))) THEN Err("IndexError")
    ELSE Ok([doc EXCEPT !.body = Remove(@, paragraphs(doc)[idx.v + 1])])

\* Lines 604-607: the paragraph at idx is taken out of the body.
delete_paragraph(doc, op) ==
    LET idx == Get(op, "index", JNum(0)) IN
    IF idx.t # "num" THEN Err("TypeError")
    ELSE IF ~(0 <= idx.v /\ idx.v < Len(paragraphs(doc))) THEN Ok(doc)
    ELSE Ok([doc EXCEPT !.body = Remove(@, paragraphs(doc)[idx.v + 1])])

\* Lines 594-607: one operation.
edit_word_operation(doc, op) ==
    IF op.t # "obj" THEN Err("AttributeError")
    ELSE LET op_type == Get(op, "type", JNull) IN
         CASE op_type = JStr("add_paragraph") ->
                add_text_paragraph(doc, Get(op, "text", JStr("")), "Normal")
           [] op_type = JStr("add_heading") -> edit_add_heading(doc, op)
           [] op_type = JStr("edit_paragraph") -> edit_paragraph(doc, op)
           [] op_type = JStr("delete_paragraph") -> delete_paragraph(doc, op)
           [] OTHER -> Ok(doc)

\* Mutant: the operations are applied from the last to the first.
RECURSIVE edit_word_operations_Reversed(_, _)
edit_word_operations_Reversed(doc, operations) ==
    IF operations = <<>> THEN Ok(doc)
    ELSE LET r == edit_word_operations_Reversed(doc, Tail(operations)) IN
         IF r.exc # None THEN r ELSE edit_word_operation(r.doc, Head(operations))

\* Lines 593-607: the operations in list order, up to the first that raises.
RECURSIVE edit_word_operations(_, _)
edit_word_operations(doc, operations) ==
    IF operations = <<>> THEN Ok(doc)
    ELSE LET r == edit_word_operation(doc, Head(operations)) IN
         IF r.exc # None THEN r ELSE edit_word_operations(r.doc, Tail(operations))

\* Mutant: the document is saved after its first operation, before the others
\* are applied.
edit_word_document_try_SaveFirst(F, T, filepath, operations, fault) ==
    IF ~exists(F, filepath)
    THEN Return(F, T, [success |-> FALSE, message |-> <<"File not found: ", filepath>>,
                       filepath |-> None])
    ELSE IF Fails(fault, "open") THEN Raise(F, T, fault.exc)
    ELSE IF Document_raises(F, filepath) # None THEN Raise(F, T, Document_raises(F, filepath))
    ELSE LET r == edit_word_operations(F[filepath].data, operations)
             first == IF operations = <<>> THEN Ok(F[filepath].data)
                      ELSE edit_word_operation(F[filepath].data, Head(operations)) IN
         IF r.exc # None
         THEN Raise(IF first.exc = None THEN write(F, filepath, first.doc) ELSE F, T, r.exc)
         ELSE IF Fails(fault, "save") THEN Raise(F, T, fault.exc)
         ELSE Return(write(F, filepath, r.doc), T,
                     [success |-> TRUE, message |-> <<"Successfully edited Word document">>,
                      filepath |-> filepath])

\* edit_word_document, the body of its try block (lines 588-610).
edit_word_document_try(F, T, filepath, operations, fault) ==
    IF ~exists(F, filepath)
    THEN Return(F, T, [success |-> FALSE, message |-> <<"File not found: ", filepath>>,
                       filepath |-> None])
    ELSE IF Fails(fault, "open") THEN Raise(F, T, fault.exc)
    ELSE IF Document_raises(F, filepath) # None THEN Raise(F, T, Document_raises(F, filepath))
    ELSE LET r == edit_word_operations(F[filepath].data, operations) IN
         IF r.exc # None THEN Raise(F, T, r.exc)
         ELSE IF Fails(fault, "save") THEN Raise(F, T, fault.exc)
         ELSE Return(write(F, filepath, r.doc), T,
                     [success |-> TRUE, message |-> <<"Successfully edited Word document">>,
                      filepath |-> filepath])

\* edit_word_document with its except clause (lines 585-612).
edit_word_document(F, T, filepath, operations, fault) ==
    except_Exception(edit_word_document_try(F, T, filepath, operations, fault),
        [success |-> FALSE,
         message |-> <<"Error editing Word document: ",
                       ErrText(edit_word_document_try(F, T, filepath, operations, fault).raised)>>,
         filepath |-> None])

(***************************************************************************)
(* convert_txt_to_word.                                                    *)
(***************************************************************************)
\* paragraph.strip() is empty, for the lines of the model.
IsBlank(line) == line \in {"", " ", "  "}

\* open(p, 'r', encoding='utf-8').read(), the exception it raises or None:
\* a container file (docx, xlsx, pdf) is no UTF-8 text.
read_text_raises(F, p) ==
    CASE isdir(F, p) -> "IsADirectoryError"
      [] F[p].data.t = "text" -> None
      [] OTHER -> "UnicodeDecodeError"

\* Lines 623-626: one paragraph for each line that is not blank.
RECURSIVE paragraphs_of_lines(_, _)
paragraphs_of_lines(doc, lines) ==
    IF lines = <<>> THEN doc
    ELSE paragraphs_of_lines(
            IF IsBlank(Head(lines)) THEN doc ELSE add_paragraph(doc, Head(lines), "Normal"),
            Tail(lines))

\* convert_txt_to_word, the body of its try block (lines 619-629).  The text
\* of a file ends with a line break, so split('\n') gives its lines and "".
convert_txt_to_word_try(F, T, source_path, target_path, fault) ==
    IF ~exists(F, source_path)
    THEN Return(F, T, [success |-> FALSE,
                       message |-> <<"Source file not found: ", source_path>>,
                       filepath |-> None])
    ELSE IF Fails(fault, "open") THEN Raise(F, T, fault.exc)
    ELSE IF read_text_raises(F, source_path) # None
    THEN Raise(F, T, read_text_raises(F, source_path))
    ELSE makedirs_and_save(F, T, target_path,
            paragraphs_of_lines(Document, F[source_path].data.lines \o <<"">>), fault,
            [success |-> TRUE, message |-> <<"Successfully converted text to Word document">>,
             filepath |-> target_path])

\* convert_txt_to_word with its except clause (lines 616-631).
convert_txt_to_word(F, T, source_path, target_path, fault) ==
    except_Exception(convert_txt_to_word_try(F, T, source_path, target_path, fault),
        [success |-> FALSE,
         message |-> <<"Error converting text to Word: ",
                       ErrText(convert_txt_to_word_try(F, T, source_path, target_path,
                                                       fault).raised)>>,
         filepath |-> None])

(***************************************************************************)
(* Workbooks.  A workbook is its sheets in order; a sheet is its title and *)
(* the values of its cells, a function of <<row, column>>.                 *)
(***************************************************************************)
Sheet(title, cells) == [title |-> title, cells |-> cells]

Xlsx(sheets) == [t |-> "xlsx", sheets |-> sheets]

\* The sheet without cells.
NoCells == [rc \in {} |-> JNull]

\* A pandas DataFrame: its column labels and its rows of values.
DataFrame(columns, rows) == [columns |-> columns, rows |-> rows]

\* max(len(row) for row in rows), 0 for no rows.
RECURSIVE max_len(_)
max_len(rows) ==
    IF rows = <<>> THEN 0
    ELSE LET m == max_len(Tail(rows)) IN IF Len(Head(rows).v) > m THEN Len(Head(rows).v) ELSE m

NoFrame(exc) == [exc |-> exc, df |-> DataFrame(<<>>, <<>>)]

\* pd.DataFrame(data) for the values of the model: None, the empty list and
\* the empty dict give the empty frame; a list of lists gives one row for each
\* list under the column labels 0, 1, ..., short rows being filled with None;
\* a list of scalars gives one column; a number, a string or a boolean is
\* rejected.
pd_DataFrame(data) ==
    CASE data.t \in {"num", "str", "bool"} -> NoFrame("ValueError")
      [] data.t = "null" -> NoFrame(None)
      [] data.t = "obj" /\ DOMAIN data.v = {} -> NoFrame(None)
      [] data.t = "arr" /\ \A i \in DOMAIN data.v : data.v[i].t = "arr" ->
            LET n == max_len(data.v) IN
            [exc |-> None,
             df |-> DataFrame([c \in 1..n |-> JNum(c - 1)],
                        [r \in DOMAIN data.v |->
                            [c \in 1..n |-> IF c <= Len(data.v[r].v) THEN data.v[r].v[c]
                                            ELSE JNull]])]
      [] data.t = "arr" /\ data.v # <<>> /\ \A i \in DOMAIN data.v : data.v[i].t \notin {"arr", "obj"} ->
            [exc |-> None,
             df |-> DataFrame(<<JNum(0)>>, [r \in DOMAIN data.v |-> <<data.v[r]>>])]

\* df.to_excel(p, index=False): one sheet "Sheet1", the column labels in row 1
\* and the rows below.
to_excel(df) ==
    Xlsx(<<Sheet("Sheet1",
            [rc \in (1..(Len(df.rows) + 1)) \X (1..Len(df.columns)) |->
                IF rc[1] = 1 THEN df.columns[rc[2]] ELSE df.rows[rc[1] - 1][rc[2]]])>>)

\* line.split(',') for each line of content.strip().split('\n'), for the
\* contents of the model that are no JSON.
split_csv(content) ==
    CASE content = "a,b\n1,2" -> <<JArr(<<JStr("a"), JStr("b")>>), JArr(<<JStr("1"), JStr("2")>>)>>
      [] content = "not valid json" -> <<JArr(<<JStr("not valid json")>>)>>

(***************************************************************************)
(* create_excel_file.  df.to_excel picks its writer by the extension of    *)
(* the path and raises ValueError when there is none for it; the paths of  *)
(* the model carry no extension and the fault at "save" stands for it.     *)
(***************************************************************************)
\* create_excel_file, the body of its try block (lines 640-647).
create_excel_file_try(F, T, filepath, content, fault) ==
    LET parsed == json_loads(content)
        data == IF parsed.ok THEN parsed.v ELSE JArr(split_csv(content))
        frame == pd_DataFrame(data) IN
    IF frame.exc # None THEN Raise(F, T, frame.exc)
    ELSE makedirs_and_save(F, T, filepath, to_excel(frame.df), fault,
            [success |-> TRUE, message |-> <<"Successfully created Excel file">>,
             filepath |-> filepath])

\* create_excel_file with its except clause (lines 637-649).
create_excel_file(F, T, filepath, content, fault) ==
    except_Exception(create_excel_file_try(F, T, filepath, content, fault),
        [success |-> FALSE,
         message |-> <<"Error creating Excel file: ",
                       ErrText(create_excel_file_try(F, T, filepath, content, fault).raised)>>,
         filepath |-> None])

(***************************************************************************)
(* edit_excel_file.  The operations of the model give "row", "col",        *)
(* "start_row" and "start_col" an integer or null (at least 1 for a        *)
(* delete_row or delete_column), "sheet" a string that is not empty and    *)
(* has none of the characters openpyxl rejects in a title, a number or     *)
(* null, and "name" such a string or a number.                             *)
(***************************************************************************)
WbOk(wb) == [exc |-> None, wb |-> wb]
WbErr(exc) == [exc |-> exc, wb |-> Xlsx(<<>>)]

\* wb.sheetnames
sheetnames(wb) == [i \in DOMAIN wb.sheets |-> wb.sheets[i].title]

\* name in wb.sheetnames
has_sheet(wb, name) == \E i \in DOMAIN wb.sheets : wb.sheets[i].title = name

\* The position of wb[name] among the sheets.
sheet_index(wb, name) == CHOOSE i \in DOMAIN wb.sheets : wb.sheets[i].title = name

\* The numbers a title of the model ends with.
Suffixes == 1..5

\* "{0}{1}".format(value, k) for the titles openpyxl numbers in the model.
numbered(value, k) ==
    CASE value = "sheet1" -> <<"sheet11", "sheet12", "sheet13", "sheet14", "sheet15", "sheet16">>[k]

\* The highest of a set of numbers, 0 for none.
highest(counts) == IF counts = {} THEN 0 ELSE CHOOSE k \in counts : \A j \in counts : j <= k

\* openpyxl's avoid_duplicate_name(names, value): a value that equals a title
\* of the workbook but for the case of its letters is followed by the number
\* after the highest one that follows it in a title.
avoid_duplicate_name(names, value) ==
    IF \E i \in DOMAIN names : lower(names[i]) = lower(value)
    THEN numbered(value,
            highest({k \in Suffixes :
                        \E i \in DOMAIN names : lower(names[i]) = lower(numbered(value, k))}) + 1)
    ELSE value

\* The title openpyxl gives the sheet of wb.create_sheet(name): the name, or
\* the name and a number when the workbook has it in another case.
new_title(wb, name) == avoid_duplicate_name(sheetnames(wb), name)

\* wb.create_sheet(name)
create_sheet(wb, name) == [wb EXCEPT !.sheets = Append(@, Sheet(new_title(wb, name), NoCells))]

\* del wb[name]
remove_sheet(wb, name) == [wb EXCEPT !.sheets = Remove(@, sheet_index(wb, name))]

\* sheet.cell(row, column, value): the value is written unless it is None.
set_cell(cells, row, column, value) ==
    IF value = JNull THEN cells
    ELSE [rc \in DOMAIN cells \cup {<<row, column>>} |->
            IF rc = <<row, column>> THEN value ELSE cells[rc]]

\* sheet.cell raises: coordinates below 1 (ValueError), coordinates that are
\* no integers (TypeError), a value that is a list or a dict (ValueError).
cell_raises(row, column, value) ==
    CASE row.t # "num" \/ column.t # "num" -> "TypeError"
      [] row.v < 1 \/ column.v < 1 -> "ValueError"
      [] value.t \in {"arr", "obj"} -> "ValueError"
      [] OTHER -> None

\* sheet.delete_rows(idx): the row is dropped and the rows below move up.
delete_rows(cells, idx) ==
    LET kept == {rc \in DOMAIN cells : rc[1] < idx}
        moved == {<<rc[1] - 1, rc[2]>> : rc \in {x \in DOMAIN cells : x[1] > idx}} IN
    [rc \in kept \cup moved |-> IF rc[1] < idx THEN cells[rc] ELSE cells[<<rc[1] + 1, rc[2]>>]]

\* sheet.delete_cols(idx): the column is dropped and those to its right move left.
delete_cols(cells, idx) ==
    LET kept == {rc \in DOMAIN cells : rc[2] < idx}
        moved == {<<rc[1], rc[2] - 1>> : rc \in {x \in DOMAIN cells : x[2] > idx}} IN
    [rc \in kept \cup moved |-> IF rc[2] < idx THEN cells[rc] ELSE cells[<<rc[1], rc[2] + 1>>]]

\* Lines 668-671: the values of an update_range, row by row and cell by cell,
\* up to the first that raises.
RECURSIVE update_row(_, _, _, _, _)
update_row(cells, row, start_col, row_values, j) ==
    IF j > Len(row_values) THEN [exc |-> None, cells |-> cells]
    ELSE LET column == IF start_col.t = "num" THEN JNum(start_col.v + j - 1) ELSE start_col
             exc == cell_raises(row, column, row_values[j]) IN
         IF exc # None THEN [exc |-> exc, cells |-> cells]
         ELSE update_row(set_cell(cells, row.v, column.v, row_values[j]),
                         row, start_col, row_values, j + 1)

RECURSIVE update_range(_, _, _, _, _)
update_range(cells, start_row, start_col, values, i) ==
    IF i > Len(values) THEN [exc |-> None, cells |-> cells]
    ELSE IF values[i].t # "arr" THEN [exc |-> "TypeError", cells |-> cells]
    ELSE LET row == IF start_row.t = "num" THEN JNum(start_row.v + i - 1) ELSE start_row
             r == update_row(cells, row, start_col, values[i].v, 1) IN
         IF r.exc # None THEN r ELSE update_range(r.cells, start_row, start_col, values, i + 1)

\* Lines 665-681: the operation of type op_type on the sheet sheet_name.
edit_sheet(wb, op, op_type, sheet_name) ==
    LET k == sheet_index(wb, sheet_name)
        cells == wb.sheets[k].cells IN
    CASE op_type = JStr("update_cell") ->
            LET row == Get(op, "row", JNum(1))
                col == Get(op, "col", JNum(1))
                value == Get(op, "value", JStr("")) IN
            IF cell_raises(row, col, value) # None THEN WbErr(cell_raises(row, col, value))
            ELSE WbOk([wb EXCEPT !.sheets[k].cells = set_cell(cells, row.v, col.v, value)])
      [] op_type = JStr("update_range") ->
            LET values == Get(op, "values", JArr(<<>>))
                r == update_range(cells, Get(op, "start_row", JNum(1)),
                                  Get(op, "start_col", JNum(1)), values.v, 1) IN
            IF values.t # "arr" THEN WbErr("TypeError")
            ELSE IF r.exc # None THEN WbErr(r.exc)
            ELSE WbOk([wb EXCEPT !.sheets[k].cells = r.cells])
      [] op_type = JStr("delete_row") ->
            LET row == Get(op, "row", JNum(1)) IN
            (CASE row.t # "num" -> WbErr("TypeError")
               [] row.t = "num" /\ row.v >= 1 ->
                    WbOk([wb EXCEPT !.sheets[k].cells = delete_rows(cells, row.v)]))
      [] op_type = JStr("delete_column") ->
            LET col == Get(op, "col", JNum(1)) IN
            (CASE col.t # "num" -> WbErr("TypeError")
               [] col.t = "num" /\ col.v >= 1 ->
                    WbOk([wb EXCEPT !.sheets[k].cells = delete_cols(cells, col.v)]))
      [] op_type = JStr("add_sheet") ->
            LET name == Get(op, "name", JStr("NewSheet")) IN
            (CASE name.t = "num" -> WbErr("TypeError")
               [] name.t = "str" ->
                    IF has_sheet(wb, name.v) THEN WbOk(wb) ELSE WbOk(create_sheet(wb, name.v)))
      [] op_type = JStr("delete_sheet") ->
            IF Len(wb.sheets) > 1 THEN WbOk(remove_sheet(wb, sheet_name)) ELSE WbOk(wb)
      [] OTHER -> WbOk(wb)

\* Lines 660-681: one operation.  A sheet the workbook lacks is created first;
\* wb[sheet_name] on line 664 raises KeyError when openpyxl gave the new sheet
\* another title than sheet_name.
edit_excel_operation(wb, op) ==
    IF op.t # "obj" THEN WbErr("AttributeError")
    ELSE LET sheet_name == Get(op, "sheet", JStr(sheetnames(wb)[1])) IN
         IF sheet_name.t = "null" THEN WbErr("KeyError")
         ELSE IF sheet_name.t # "str" THEN WbErr("TypeError")
         ELSE LET made == IF has_sheet(wb, sheet_name.v) THEN wb
                          ELSE create_sheet(wb, sheet_name.v) IN
              IF ~has_sheet(made, sheet_name.v) THEN WbErr("KeyError")
              ELSE edit_sheet(made, op, Get(op, "type", JNull), sheet_name.v)

\* Lines 659-681: the operations in list order, up to the first that raises.
RECURSIVE edit_excel_operations(_, _)
edit_excel_operations(wb, operations) ==
    IF operations = <<>> THEN WbOk(wb)
    ELSE LET r == edit_excel_operation(wb, Head(operations)) IN
         IF r.exc # None THEN r ELSE edit_excel_operations(r.wb, Tail(operations))

\* openpyxl.load_workbook(p), the exception it raises or None: a Word file is
\* a zip archive without a workbook part, a text or PDF file is no archive.
load_workbook_raises(F, p) ==
    CASE isdir(F, p) -> "IsADirectoryError"
      [] F[p].data.t = "xlsx" -> None
      [] F[p].data.t = "docx" -> "OSError"
      [] OTHER -> "BadZipFile"

\* edit_excel_file, the body of its try block (lines 656-683).
edit_excel_file_try(F, T, filepath, operations, fault) ==
    IF ~exists(F, filepath)
    THEN Return(F, T, [success |-> FALSE, message |-> <<"File not found: ", filepath>>,
                       filepath |-> None])
    ELSE IF Fails(fault, "open") THEN Raise(F, T, fault.exc)
    ELSE IF load_workbook_raises(F, filepath) # None
    THEN Raise(F, T, load_workbook_raises(F, filepath))
    ELSE LET r == edit_excel_operations(F[filepath].data, operations) IN
         IF r.exc # None THEN Raise(F, T, r.exc)
         ELSE IF Fails(fault, "save") THEN Raise(F, T, fault.exc)
         ELSE Return(write(F, filepath, r.wb), T,
                     [success |-> TRUE, message |-> <<"Successfully edited Excel file">>,
                      filepath |-> filepath])

\* edit_excel_file with its except clause (lines 653-685).
edit_excel_file(F, T, filepath, operations, fault) ==
    except_Exception(edit_excel_file_try(F, T, filepath, operations, fault),
        [success |-> FALSE,
         message |-> <<"Error editing Excel file: ",
                       ErrText(edit_excel_file_try(F, T, filepath, operations, fault).raised)>>,
         filepath |-> None])

(***************************************************************************)
(* convert_csv_to_excel.                                                   *)
(***************************************************************************)
\* line.split(',') for the lines of the text files of the model.
split_comma(line) ==
    CASE line = "x" -> <<"x">>
      [] line = "a,b" -> <<"a", "b">>
      [] line = "1,2" -> <<"1", "2">>
      [] line = "3,z" -> <<"3", "z">>

\* pandas reads a column as integers when every value of it spells one, and
\* as strings otherwise.
csv_column_is_int(rows, c) == \A r \in DOMAIN rows : IsInt(rows[r][c])

\* pd.read_csv(p): the frame it gives or the exception it raises.  The
\* first line names the columns; a file without lines has no columns to
\* parse (EmptyDataError), a line with more fields than the first is
\* rejected (ParserError) and a shorter one is filled with NaN, which the
\* files of the model do not have.
pd_read_csv(F, p) ==
    IF read_text_raises(F, p) # None THEN NoFrame(read_text_raises(F, p))
    ELSE LET lines == F[p].data.lines IN
         IF lines = <<>> THEN NoFrame("EmptyDataError")
         ELSE LET columns == split_comma(lines[1])
                  rows == [r \in 1..(Len(lines) - 1) |-> split_comma(lines[r + 1])] IN
              CASE \E r \in DOMAIN rows : Len(rows[r]) > Len(columns) -> NoFrame("ParserError")
                [] \A r \in DOMAIN rows : Len(rows[r]) = Len(columns) ->
                    [exc |-> None,
                     df |-> DataFrame([c \in DOMAIN columns |-> JStr(columns[c])],
                                [r \in DOMAIN rows |->
                                    [c \in DOMAIN columns |->
                                        IF csv_column_is_int(rows, c) THEN JNum(int(rows[r][c]))
                                        ELSE JStr(rows[r][c])]])]

\* Mutant: the parent directory of the target is made before the source is
\* looked for.
convert_csv_to_excel_try_MakedirsFirst(F, T, source_path, target_path, fault) ==
    IF ~exists(F, source_path)
    THEN Return(IF makedirs_raises(F, target_path) THEN F ELSE makedirs(F, target_path), T,
                [success |-> FALSE,
                 message |-> <<"Source file not found: ", source_path>>,
                 filepath |-> None])
    ELSE IF Fails(fault, "open") THEN Raise(F, T, fault.exc)
    ELSE IF pd_read_csv(F, source_path).exc # None
    THEN Raise(F, T, pd_read_csv(F, source_path).exc)
    ELSE makedirs_and_save(F, T, target_path, to_excel(pd_read_csv(F, source_path).df), fault,
            [success |-> TRUE, message |-> <<"Successfully converted CSV to Excel">>,
             filepath |-> target_path])

\* convert_csv_to_excel, the body of its try block (lines 692-697).
convert_csv_to_excel_try(F, T, source_path, target_path, fault) ==
    IF ~exists(F, source_path)
    THEN Return(F, T, [success |-> FALSE,
                       message |-> <<"Source file not found: ", source_path>>,
                       filepath |-> None])
    ELSE IF Fails(fault, "open") THEN Raise(F, T, fault.exc)
    ELSE IF pd_read_csv(F, source_path).exc # None
    THEN Raise(F, T, pd_read_csv(F, source_path).exc)
    ELSE makedirs_and_save(F, T, target_path, to_excel(pd_read_csv(F, source_path).df), fault,
            [success |-> TRUE, message |-> <<"Successfully converted CSV to Excel">>,
             filepath |-> target_path])

\* convert_csv_to_excel with its except clause (lines 689-699).
convert_csv_to_excel(F, T, source_path, target_path, fault) ==
    except_Exception(convert_csv_to_excel_try(F, T, source_path, target_path, fault),
        [success |-> FALSE,
         message |-> <<"Error converting CSV to Excel: ",
                       ErrText(convert_csv_to_excel_try(F, T, source_path, target_path,
                                                        fault).raised)>>,
         filepath |-> None])

(***************************************************************************)
(* create_pdf_file.  A PDF is its pages, each the strings drawn on it      *)
(* with their positions.                                                   *)
(***************************************************************************)
Pdf(pages) == [t |-> "pdf", pages |-> pages]

\* The height of reportlab's letter page, in points.
LetterHeight == 792
\* The margin kept at the top, the bottom and the left of a page.
Margin == 40
\* The distance from one line to the next.
LineStep == 15

\* The most lines of a content.
MaxLines == 100

\* The long contents of the model: n lines that read "a", "b", "", "a", ...
LinesOf(n) == [k \in 1..n |-> <<"a", "b", "">>[((k - 1) % 3) + 1]]

\* '\n'.join(lines) for at least one line.
RECURSIVE join_lines(_)
join_lines(lines) ==
    IF Len(lines) = 1 THEN lines[1]
    ELSE LET half == Len(lines) \div 2 IN
         join_lines(SubSeq(lines, 1, half)) \o "\n"
            \o join_lines(SubSeq(lines, half + 1, Len(lines)))

LongContents == [n \in 1..MaxLines |-> join_lines(LinesOf(n))]

\* content.split('\n') for the contents of the model: the lines without a
\* line break that, joined by line breaks, give the content.
split_lines(content) ==
    CASE content = "" -> <<"">>
      [] content = "Hello" -> <<"Hello">>
      [] content = "Simple content" -> <<"Simple content">>
      [] OTHER -> LinesOf(CHOOSE n \in 1..MaxLines : LongContents[n] = content)

\* Mutant: a page is turned only when the next line would start less than one
\* line step above the bottom edge.
draw_line_ToTheEdge(st, line) ==
    LET turn == st.y_position < LineStep
        y == IF turn THEN LetterHeight - Margin ELSE st.y_position
        on == IF turn THEN Append(st.pages, <<>>) ELSE st.pages IN
    [pages |-> [on EXCEPT ![Len(on)] = Append(@, [x |-> Margin, y |-> y, text |-> line])],
     y_position |-> y - LineStep]

\* Lines 714-718: one turn of the loop; `pages` holds the pages so far, the
\* last of them being the one drawn on.
draw_line(st, line) ==
    LET turn == st.y_position < Margin
        y == IF turn THEN LetterHeight - Margin ELSE st.y_position
        on == IF turn THEN Append(st.pages, <<>>) ELSE st.pages IN
    [pages |-> [on EXCEPT ![Len(on)] = Append(@, [x |-> Margin, y |-> y, text |-> line])],
     y_position |-> y - LineStep]

\* Line 713: the turns of the loop in the order of the lines: those of the
\* first half of the lines and then, from the pages and the position they
\* leave, those of the second half.  A canvas always has a page, so the test
\* on `mid` only makes TLC compute it before the second half.
RECURSIVE draw_loop(_, _)
draw_loop(st, lines) ==
    IF lines = <<>> THEN st
    ELSE IF Len(lines) = 1 THEN draw_line(st, lines[1])
    ELSE LET half == Len(lines) \div 2
             mid == draw_loop(st, SubSeq(lines, 1, half)) IN
         IF mid.pages = <<>> THEN mid
         ELSE draw_loop(mid, SubSeq(lines, half + 1, Len(lines)))

\* Lines 712-718: the pages after every line is drawn.
draw_lines(pages, y_position, lines) ==
    draw_loop([pages |-> pages, y_position |-> y_position], lines).pages

\* create_pdf_file, the body of its try block (lines 708-720): the parent
\* directory is made before anything is drawn.
create_pdf_file_try(F, T, filepath, content, fault) ==
    makedirs_and_save(F, T, filepath,
        Pdf(draw_lines(<<<<>>>>, LetterHeight - Margin, split_lines(content))), fault,
        [success |-> TRUE, message |-> <<"Successfully created PDF file">>,
         filepath |-> filepath])

\* Mutant: a handler that remembers: called right after another
\* create_pdf_file, it returns what that call returned and writes nothing.
create_pdf_file_Remembering(F, T, filepath, content, fault) ==
    IF call.tool = "create_pdf_file" THEN Return(F, T, result)
    ELSE except_Exception(create_pdf_file_try(F, T, filepath, content, fault),
            [success |-> FALSE,
             message |-> <<"Error creating PDF file: ",
                           ErrText(create_pdf_file_try(F, T, filepath, content, fault).raised)>>,
             filepath |-> None])

\* create_pdf_file with its except clause (lines 705-722).
create_pdf_file(F, T, filepath, content, fault) ==
    except_Exception(create_pdf_file_try(F, T, filepath, content, fault),
        [success |-> FALSE,
         message |-> <<"Error creating PDF file: ",
                       ErrText(create_pdf_file_try(F, T, filepath, content, fault).raised)>>,
         filepath |-> None])

(***************************************************************************)
(* convert_word_to_pdf.  docx2pdf drives Microsoft Word: what its convert  *)
(* does depends on sys.platform.  It first resolves the two paths: a       *)
(* source directory is converted as a batch into the target, which must be *)
(* a directory; a source file must end in ".docx" and its target in        *)
(* ".pdf", unless the target is a directory, which then receives a PDF     *)
(* named after the source.  On "linux" it then raises NotImplementedError. *)
(* On "win32" an error of Word is a com_error, an Exception; on "darwin"   *)
(* docx2pdf prints the error Word reports and calls sys.exit(1).  The      *)
(* paths of the model carry no extension: the fault at "suffix" stands for *)
(* one that docx2pdf rejects, the fault at "word" for an error of Word.    *)
(***************************************************************************)
Platforms == {"linux", "win32", "darwin"}

\* The PDF that Word makes of a document.
WordPdf(doc) == [t |-> "pdf", word |-> doc]

\* What an error of Word comes to in docx2pdf.convert.
word_error(platform) == IF platform = "darwin" THEN "SystemExit" ELSE "com_error"

\* The Word files in a directory: those of its tracked entries that hold one.
docx_in(F, p) == {q \in Children(p) : F[q].kind = "file" /\ F[q].data.t = "docx"}

\* A directory receives n files under names it does not hold yet.
add_entries(F, p, n) == [F EXCEPT ![p] = Dir(@.extra + n)]

\* docx2pdf.convert(source_path, target_path): the filesystem it leaves and
\* the exception it raises, if any.  Word cannot read a file that is no Word
\* document.
docx2pdf_convert(F, source_path, target_path, platform, fault) ==
    LET batch == isdir(F, source_path) IN
    IF batch /\ ~isdir(F, target_path) THEN [raised |-> "AssertionError", fs |-> F]
    ELSE IF ~batch /\ Fails(fault, "suffix") THEN [raised |-> "AssertionError", fs |-> F]
    ELSE IF platform = "linux" THEN [raised |-> "NotImplementedError", fs |-> F]
    ELSE IF Fails(fault, "word") \/ (~batch /\ F[source_path].data.t # "docx")
    THEN [raised |-> word_error(platform), fs |-> F]
    ELSE IF batch
    THEN [raised |-> None,
          fs |-> add_entries(F, target_path, Cardinality(docx_in(F, source_path)))]
    ELSE IF isdir(F, target_path)
    THEN [raised |-> None, fs |-> add_entries(F, target_path, 1)]
    ELSE [raised |-> None, fs |-> write(F, target_path, WordPdf(F[source_path].data))]

\* convert_word_to_pdf, the body of its try block (lines 729-733).
convert_word_to_pdf_try(F, T, source_path, target_path, platform, fault) ==
    IF ~exists(F, source_path)
    THEN Return(F, T, [success |-> FALSE,
                       message |-> <<"Source file not found: ", source_path>>,
                       filepath |-> None])
    ELSE IF Fails(fault, "makedirs") THEN Raise(F, T, fault.exc)
    ELSE IF makedirs_raises(F, target_path) THEN Raise(F, T, "FileExistsError")
    ELSE LET c == docx2pdf_convert(makedirs(F, target_path), source_path, target_path,
                                   platform, fault) IN
         IF c.raised # None THEN Raise(c.fs, T, c.raised)
         ELSE Return(c.fs, T,
                     [success |-> TRUE, message |-> <<"Successfully converted Word to PDF">>,
                      filepath |-> target_path])

\* convert_word_to_pdf with its except clause (lines 726-735).
convert_word_to_pdf(F, T, source_path, target_path, platform, fault) ==
    except_Exception(convert_word_to_pdf_try(F, T, source_path, target_path, platform, fault),
        [success |-> FALSE,
         message |-> <<"Error converting Word to PDF: ",
                       ErrText(convert_word_to_pdf_try(F, T, source_path, target_path,
                                                       platform, fault).raised)>>,
         filepath |-> None])

(***************************************************************************)
(* Calls.  A call replaces the filesystem and the trash by what the        *)
(* handler leaves, records what it returned, and keeps the state it        *)
(* started from.  An exception the handler does not catch reaches the      *)
(* caller: `result` then holds it in place of a dict.                      *)
(***************************************************************************)
Propagated(exc) == [tool |-> "raised", exception |-> exc]

DoCall(c, o) ==
    /\ fs' = o.fs
    /\ trash' = o.trash
    /\ call' = c
    /\ result' = IF o.raised = None THEN o.ret ELSE Propagated(o.raised)
    /\ pre' = [fs |-> fs, trash |-> trash]

\* The exceptions the operating system raises in the model.
OSErrors == {"PermissionError", "OSError"}

\* The confirm values tried: the two the tools accept and near misses.
Confirms == {"CORBEILLE", "SUPPRESSION DÉFINITIVE", "corbeille", "SUPPRESSION DEFINITIVE"}

call_delete_file(P, C) ==
    \E filepath \in P, confirm \in C, fault \in FaultsAt({"remove"}, OSErrors) :
        /\ confirm = "CORBEILLE" => Cardinality(trash) < MaxTrash
        /\ DoCall([tool |-> "delete_file", filepath |-> filepath, confirm |-> confirm,
                   fault |-> fault],
                  delete_file(fs, trash, filepath, confirm, fault))

call_delete_directory(P, C) ==
    \E dirpath \in P, confirm \in C, fault \in FaultsAt({"listdir", "remove"}, OSErrors) :
        /\ confirm = "CORBEILLE" => Cardinality(trash) < MaxTrash
        /\ DoCall([tool |-> "delete_directory", dirpath |-> dirpath, confirm |-> confirm,
                   fault |-> fault],
                  delete_directory(fs, trash, dirpath, confirm, fault))

(***************************************************************************)
(* SpecFiles: the two deletion tools on every initial filesystem.          *)
(***************************************************************************)
\* A text file as open(..., 'r').read() gives it: its lines.
Text(lines) == [t |-> "text", lines |-> lines]

InitNodes(p, datas) ==
    {Missing} \cup {File(d) : d \in datas}
    \cup {Dir(n) : n \in IF p = "dir" THEN {0, 1, MaxExtra - 1, MaxExtra} ELSE 0..MaxSubExtra}

InitFS(datas) ==
    {F \in [Paths -> UNION {InitNodes(p, datas) : p \in Paths}] :
        /\ \A p \in Paths : F[p] \in InitNodes(p, datas)
        /\ WellFormed(F)}

InitWith(datas) ==
    /\ fs \in InitFS(datas)
    /\ trash = {}
    /\ call = [tool |-> "none"]
    /\ result = NoResult
    /\ pre = [fs |-> fs, trash |-> {}]

InitFiles == InitWith({Text(<<"x">>)})

NextFiles ==
    \/ call_delete_file(Paths, Confirms)
    \/ call_delete_directory(Paths, Confirms)

SpecFiles == InitFiles /\ [][NextFiles]_vars

\* What every claim about the filesystem means by "left unchanged".
Unchanged == fs = pre.fs /\ trash = pre.trash

\* The last call returned a dict (no exception reached the caller).
IsDict(r) == "success" \in DOMAIN r

\* The last call was `tool` on a path that held a node of kind `kind`.
DeleteCallOn(tool, kind) ==
    /\ call.tool = tool
    /\ pre.fs[IF tool = "delete_file" THEN call.filepath ELSE call.dirpath].kind = kind

\* The path argument of the last deletion call.
DeletePath == IF call.tool = "delete_file" THEN call.filepath ELSE call.dirpath

(***************************************************************************)
(* Claims about the deletion tools, checked under SpecFiles.               *)
(***************************************************************************)

\* C1: delete_file and delete_directory delete nothing unless confirm is
\* exactly "CORBEILLE" or "SUPPRESSION DÉFINITIVE": with any other confirm,
\* whatever the path holds, the filesystem and the trash are unchanged and the
\* result has success False, deleted False and the confirmation-error message.
C1_ConfirmRequired ==
    (/\ call.tool \in {"delete_file", "delete_directory"}
     /\ call.confirm \notin {"CORBEILLE", "SUPPRESSION DÉFINITIVE"})
    => /\ Unchanged
       /\ IsDict(result)
       /\ result.success = FALSE
       /\ result.deleted = FALSE
       /\ result.message = ConfirmErrorMessage

\* C1 witness: delete_file was refused on an existing file for a confirm that
\* differs from an accepted one by case only.
C1_Witness ==
    /\ DeleteCallOn("delete_file", "file")
    /\ call.confirm = "corbeille"
    /\ fs[call.filepath].kind = "file"
    /\ result.message = ConfirmErrorMessage

\* C2 as stated: delete_file on an existing regular file with "CORBEILLE"
\* moves the file to the trash and returns deleted True, method "trash"; with
\* "SUPPRESSION DÉFINITIVE" it removes the file for good and returns deleted
\* True, method "permanent".
C2_AsStated ==
    DeleteCallOn("delete_file", "file") =>
        /\ call.confirm = "CORBEILLE" =>
            /\ IsDict(result) /\ result.deleted = TRUE
            /\ "method" \in DOMAIN result /\ result.method = "trash"
            /\ fs[call.filepath] = Missing
            /\ [path |-> call.filepath, node |-> pre.fs[call.filepath]] \in trash
        /\ call.confirm = "SUPPRESSION DÉFINITIVE" =>
            /\ IsDict(result) /\ result.deleted = TRUE
            /\ "method" \in DOMAIN result /\ result.method = "permanent"
            /\ fs[call.filepath] = Missing
            /\ trash = pre.trash

\* C2 amended: the same, provided the operating-system call that sizes, trashes
\* or removes the file does not raise; when it raises nothing is deleted and
\* the result has deleted False and no method.  With "CORBEILLE" the file is
\* never removed for good (it is in the trash or still in place), and a method
\* that is reported matches the confirm value.
C2_DeleteFileMethod ==
    DeleteCallOn("delete_file", "file") =>
        /\ IsDict(result)
        /\ (call.confirm = "CORBEILLE" /\ call.fault = NoFault) =>
            /\ result.deleted = TRUE
            /\ "method" \in DOMAIN result /\ result.method = "trash"
            /\ fs[call.filepath] = Missing
            /\ trash = pre.trash \cup {[path |-> call.filepath, node |-> pre.fs[call.filepath]]}
        /\ (call.confirm = "SUPPRESSION DÉFINITIVE" /\ call.fault = NoFault) =>
            /\ result.deleted = TRUE
            /\ "method" \in DOMAIN result /\ result.method = "permanent"
            /\ fs[call.filepath] = Missing
            /\ trash = pre.trash
        /\ call.fault # NoFault =>
            /\ Unchanged
            /\ result.deleted = FALSE
            /\ "method" \notin DOMAIN result
        /\ call.confirm = "CORBEILLE" =>
            \/ fs[call.filepath] = pre.fs[call.filepath]
            \/ [path |-> call.filepath, node |-> pre.fs[call.filepath]] \in trash
        /\ "method" \in DOMAIN result =>
            (result.method = "trash" <=> call.confirm = "CORBEILLE")
        /\ \A q \in Paths \ {call.filepath} : fs[q] = pre.fs[q]

\* C2 witness: a file has been sent to the trash by delete_file.
C2_Witness ==
    /\ DeleteCallOn("delete_file", "file")
    /\ call.confirm = "CORBEILLE"
    /\ result.deleted = TRUE
    /\ result.method = "trash"
    /\ [path |-> call.filepath, node |-> pre.fs[call.filepath]] \in trash

\* C3 as stated: when the directory holds at least one entry, whatever the
\* confirm value, nothing changes and the result has success False, deleted
\* False, a message giving the number of items and a contents list of at most
\* the first 10 entries.
C3_AsStated ==
    (DeleteCallOn("delete_directory", "dir") /\ Len(listdir(pre.fs, call.dirpath)) > 0)
    => LET contents == listdir(pre.fs, call.dirpath) IN
       /\ Unchanged
       /\ IsDict(result) /\ result.success = FALSE /\ result.deleted = FALSE
       /\ result.message = <<"Directory not empty (", ToString(Len(contents)),
                             " items). Delete contents first.">>
       /\ "contents" \in DOMAIN result
       /\ Len(result.contents) <= 10
       /\ result.contents = SubSeq(contents, 1, Len(result.contents))

\* C3 amended: when the directory holds at least one entry, whatever the
\* confirm value, nothing changes and the result has success False and deleted
\* False.  The message giving the number of items and the contents list (the
\* first 10 entries, all of them when there are fewer) are returned when
\* confirm is one of the two accepted values and the directory can be listed;
\* otherwise the confirmation error, or the listing error, is returned without
\* a contents list.
C3_OnlyEmptyDirectories ==
    (DeleteCallOn("delete_directory", "dir") /\ Len(listdir(pre.fs, call.dirpath)) > 0)
    => LET contents == listdir(pre.fs, call.dirpath)
           n == Len(contents) IN
       /\ Unchanged
       /\ IsDict(result) /\ result.success = FALSE /\ result.deleted = FALSE
       /\ IF call.confirm \in {"CORBEILLE", "SUPPRESSION DÉFINITIVE"} /\ call.fault.at # "listdir"
          THEN /\ result.message = <<"Directory not empty (", ToString(n),
                                     " items). Delete contents first.">>
               /\ "contents" \in DOMAIN result
               /\ Len(result.contents) = (IF n < 10 THEN n ELSE 10)
               /\ \A i \in 1..Len(result.contents) : result.contents[i] = contents[i]
          ELSE /\ "contents" \notin DOMAIN result
               /\ result.message \in {ConfirmErrorMessage,
                                      <<"Permission denied: ", call.dirpath>>,
                                      <<"Error deleting directory: ", ErrText(call.fault.exc)>>}

\* C3 witness: delete_directory with an accepted confirm was refused on a
\* directory of more than 10 entries, and listed 10 of them.
C3_Witness ==
    /\ DeleteCallOn("delete_directory", "dir")
    /\ call.confirm = "SUPPRESSION DÉFINITIVE"
    /\ Len(listdir(pre.fs, call.dirpath)) > 10
    /\ "contents" \in DOMAIN result
    /\ Len(result.contents) = 10
    /\ fs[call.dirpath].kind = "dir"

\* C4: with an accepted confirm, delete_file on a directory and
\* delete_directory on a regular file change nothing and return success False,
\* deleted False with "Cannot delete directory with this function" and "Not a
\* directory"; on a missing path either returns a not-found error.
C4_KindGuards ==
    (/\ call.tool \in {"delete_file", "delete_directory"}
     /\ call.confirm \in {"CORBEILLE", "SUPPRESSION DÉFINITIVE"})
    => LET kind == pre.fs[DeletePath].kind
           wrong == IF call.tool = "delete_file" THEN "dir" ELSE "file" IN
       kind \in {wrong, "missing"} =>
           /\ Unchanged
           /\ IsDict(result) /\ result.success = FALSE /\ result.deleted = FALSE
           /\ result.message =
                CASE call.tool = "delete_file" /\ kind = "dir" ->
                        <<"Cannot delete directory with this function: ", DeletePath>>
                  [] call.tool = "delete_file" /\ kind = "missing" ->
                        <<"File not found: ", DeletePath>>
                  [] call.tool = "delete_directory" /\ kind = "file" ->
                        <<"Not a directory: ", DeletePath>>
                  [] call.tool = "delete_directory" /\ kind = "missing" ->
                        <<"Directory not found: ", DeletePath>>

\* C4 witness: delete_file with "CORBEILLE" was refused on an empty directory.
C4_Witness ==
    /\ DeleteCallOn("delete_file", "dir")
    /\ call.confirm = "CORBEILLE"
    /\ Len(listdir(pre.fs, call.filepath)) = 0
    /\ fs[call.filepath].kind = "dir"
    /\ result.message = <<"Cannot delete directory with this function: ", call.filepath>>

(***************************************************************************)
(* SpecCreate: create_formatted_word_document on every document_data of    *)
(* the model, with create_word_document beside it.                         *)
(***************************************************************************)
\* The exception the operating system raises on a write in the model.
WriteFaults == FaultsAt({"makedirs", "save"}, {"OSError"})

call_create_word_document(P, contents, faults) ==
    \E filepath \in P, content \in contents, fault \in faults :
        DoCall([tool |-> "create_word_document", filepath |-> filepath, content |-> content,
                fault |-> fault],
               create_word_document(fs, trash, filepath, content, fault))

call_create_formatted_word_document(P, datas, faults) ==
    \E filepath \in P, document_data \in datas, fault \in faults :
        DoCall([tool |-> "create_formatted_word_document", filepath |-> filepath,
                document_data |-> document_data, fault |-> fault],
               create_formatted_word_document(fs, trash, filepath, document_data, fault))

\* document_data that is not JSON, JSON that is not an object, objects without
\* a "sections" key, and objects with sections.
DataNotJson == {"not valid json", "{\"sections\": ["}
DataNoSections ==
    {"{}", "[]", "{\"title\": 5}",
     "{\"content\": [{\"type\": \"paragraph\", \"text\": \"Hello\"}]}",
     "{\"title\": \"T\", \"header\": \"H\", \"content\": [{\"type\": \"paragraph\", \"text\": \"Hello\"}]}"}
DataParagraph == "{\"sections\": [{\"type\": \"paragraph\", \"text\": \"Hello\"}]}"
DataBadSection == "{\"sections\": [\"x\"]}"
DataOneTable == "{\"sections\": [{\"type\": \"table\", \"headers\": [\"A\", \"B\"], \"rows\": [[\"1\", \"2\"]]}]}"
DataTwoTables == "{\"sections\": [{\"type\": \"table\", \"headers\": [\"A\", \"B\"], \"rows\": [[\"1\", \"2\"], [\"3\", \"4\"]]}, {\"type\": \"key_value_table\", \"rows\": [[\"K\", \"V\"]], \"col_widths\": [3000, 6000], \"row_height\": 10}]}"
DataRowHeight10 == "{\"sections\": [{\"type\": \"key_value_table\", \"rows\": [[\"K\", \"V\"]], \"row_height\": 10}]}"
DataRowHeight20 == "{\"sections\": [{\"type\": \"key_value_table\", \"rows\": [[\"K\", \"V\"]], \"row_height\": 20}]}"
DataNoHeaders == "{\"sections\": [{\"type\": \"table\", \"headers\": [], \"rows\": [[\"1\", \"2\"]]}]}"
DataBadColour == "{\"sections\": [{\"type\": \"paragraph\", \"text\": \"Hello\"}, {\"type\": \"heading\", \"text\": \"H\", \"color\": \"GGGGGG\"}]}"
DataBadLevel == "{\"sections\": [{\"type\": \"paragraph\", \"text\": \"Hello\"}, {\"type\": \"heading\", \"text\": \"H\", \"level\": 10}]}"
DataLongColour == "{\"sections\": [{\"type\": \"heading\", \"text\": \"H\", \"color\": \"1F4E79FF\"}]}"
DataRagged == "{\"sections\": [{\"type\": \"table\", \"headers\": [\"A\", \"B\"], \"rows\": [[\"1\", \"2\", \"3\"], [\"4\"], []]}]}"
DataMissingHeaders == "{\"sections\": [{\"type\": \"table\", \"rows\": [[\"1\", \"2\"]]}]}"
DataKeyValueRagged == "{\"sections\": [{\"type\": \"key_value_table\", \"rows\": [[\"K\", \"V\"], [\"K2\", \"V2\", \"X\"], [\"K3\"]]}]}"
DataValues == "{\"sections\": [{\"type\": \"table\", \"headers\": [\"A\", 1], \"rows\": [[2, true], [null]]}]}"
DataWidths == "{\"sections\": [{\"type\": \"table\", \"headers\": [\"A\", \"B\"], \"rows\": [[\"1\", \"2\"]], \"col_widths\": [3000, 6000]}]}"
DataWidthsLong == "{\"sections\": [{\"type\": \"table\", \"headers\": [\"A\", \"B\"], \"rows\": [[\"1\", \"2\"]], \"col_widths\": [3000, 6000, 400]}]}"
DataKeyValueWidths == "{\"sections\": [{\"type\": \"key_value_table\", \"rows\": [[\"K\", \"V\"]], \"col_widths\": [3000], \"row_height\": 10}]}"
DataWidthsEmpty == "{\"sections\": [{\"type\": \"table\", \"headers\": [\"A\", \"B\"], \"rows\": [[\"1\", \"2\"]], \"col_widths\": []}]}"
DataUnknownTypes == "{\"sections\": [{\"type\": \"paragraph\", \"text\": \"A\"}, {\"type\": \"chart\", \"text\": \"X\"}, {\"text\": \"untyped\"}, {\"type\": \"Heading\", \"text\": \"H\"}, {\"type\": \"paragraph\", \"text\": \"B\"}]}"
DataOnlyUnknown == "{\"sections\": [{\"type\": \"chart\"}]}"
DataSpacer == "{\"sections\": [{\"type\": \"paragraph\", \"text\": \"A\"}, {\"type\": \"spacer\"}, {\"type\": \"paragraph\", \"text\": \"B\"}]}"
DataMiddle == "{\"sections\": [{\"type\": \"paragraph\", \"text\": \"A\", \"alignment\": \"middle\"}, {\"type\": \"paragraph\", \"text\": \"B\", \"alignment\": \"Justify\"}]}"
DataUnknownThenBad == "{\"sections\": [{\"type\": \"chart\"}, {\"type\": \"heading\", \"text\": \"H\", \"level\": 10}]}"
DataFull == "{\"title\": \"T\", \"sections\": [{\"type\": \"heading\", \"level\": 2, \"text\": \"Intro\"}, {\"type\": \"paragraph\", \"text\": \"a**b**c\", \"alignment\": \"CENTER\"}, {\"type\": \"bullet_list\", \"items\": [\"P\", \"Q\"]}, {\"type\": \"page_break\"}, {\"type\": \"numbered_list\", \"items\": [\"N\"]}, {\"type\": \"spacer\"}]}"

InitCreate ==
    /\ fs \in {F \in InitFS({Text(<<"x">>)}) :
                /\ F["dir/b"] = Missing
                /\ F["dir"].kind = "dir" => F["dir"].extra = 0
                /\ F["dir/a"].kind = "dir" => F["dir/a"].extra = 0}
    /\ trash = {}
    /\ call = [tool |-> "none"]
    /\ result = NoResult
    /\ pre = [fs |-> fs, trash |-> {}]

NextCreate ==
    \/ call_create_formatted_word_document({"dir", "dir/a"},
            DataNotJson \cup DataNoSections
            \cup {DataParagraph, DataBadSection, DataFull, DataBadColour, DataBadLevel,
                  DataLongColour, DataUnknownTypes, DataOnlyUnknown, DataSpacer, DataMiddle,
                  DataUnknownThenBad},
            WriteFaults)
    \/ call_create_word_document({"dir/a"}, {"Simple content"}, WriteFaults)

SpecCreate == InitCreate /\ [][NextCreate]_vars

(***************************************************************************)
(* SpecCompare: documents are created, read and compared.  The initial     *)
(* filesystem holds documents that other programs wrote.                   *)
(***************************************************************************)
call_read_word_document_structure(P, faults) ==
    \E filepath \in P, fault \in faults :
        DoCall([tool |-> "read_word_document_structure", filepath |-> filepath, fault |-> fault],
               read_word_document_structure(fs, trash, filepath, fault))

call_compare_word_documents(P, faults) ==
    \E filepath1 \in P, filepath2 \in P, fault \in faults :
        DoCall([tool |-> "compare_word_documents", filepath1 |-> filepath1,
                filepath2 |-> filepath2, fault |-> fault],
               compare_word_documents(fs, trash, filepath1, filepath2, fault))

\* A document with one table that has no w:tblGrid, whose first row has a
\* w:trHeight without w:val and whose cells have no w:tcW.
ForeignDocument ==
    Docx(None, None,
         <<Table(Absent, <<Row(Some(TrHeight(None, "exact")), <<Cell(Absent, "x")>>),
                           Row(Absent, <<Cell(Absent, "y")>>)>>)>>)

\* A document whose grid holds a width that is not an integer.
BrokenDocument ==
    Docx(None, None, <<Table(Some(<<"wide">>), <<Row(Absent, <<Cell(Absent, "x")>>)>>)>>)

InitCompare ==
    /\ fs \in {F \in [Paths -> {Missing, Dir(0), File(ForeignDocument), File(BrokenDocument),
                                File(Text(<<"x">>))}] :
                /\ F["dir"] = Dir(0)
                /\ F["dir/a"] # Dir(0) /\ F["dir/b"] # Dir(0)}
    /\ trash = {}
    /\ call = [tool |-> "none"]
    /\ result = NoResult
    /\ pre = [fs |-> fs, trash |-> {}]

NextCompare ==
    \/ call_create_formatted_word_document({"dir/a", "dir/b"},
            {DataParagraph, DataOneTable, DataNoHeaders, DataTwoTables, DataRowHeight10,
             DataRowHeight20},
            {NoFault})
    \/ call_read_word_document_structure(Paths, FaultsAt({"open"}, {"PermissionError"}))
    \/ call_compare_word_documents({"dir/a", "dir/b"},
            FaultsAt({"open1", "open2"}, {"PermissionError"}))

SpecCompare == InitCompare /\ [][NextCompare]_vars

\* The document at p can be read: read_word_document_structure succeeds on it
\* when the operating system lets the file be opened.
Readable(F, p) == read_word_document_structure(F, {}, p, NoFault).ret.success

\* The last call was compare_word_documents on two documents it could read.
ComparedReadable ==
    /\ call.tool = "compare_word_documents"
    /\ call.fault = NoFault
    /\ Readable(pre.fs, call.filepath1)
    /\ Readable(pre.fs, call.filepath2)

\* The number of tables of the document at p.
TableCount(F, p) == Len(Tables(F[p].data.body))

(***************************************************************************)
(* Claims about compare_word_documents, checked under SpecCompare.         *)
(***************************************************************************)

\* C9: compare_word_documents is reflexive: comparing a readable document with
\* itself, or with a document of the same content (created from the same
\* document_data), returns success True, is_identical True and no differences.
C9_CompareReflexive ==
    (/\ ComparedReadable
     /\ \/ call.filepath1 = call.filepath2
        \/ pre.fs[call.filepath1] = pre.fs[call.filepath2])
    => /\ IsDict(result)
       /\ result.success = TRUE
       /\ result.is_identical = TRUE
       /\ result.differences = <<>>

\* C9 witness: two files created from the same document_data, with two tables,
\* were compared and found identical.
C9_Witness ==
    /\ ComparedReadable
    /\ call.filepath1 # call.filepath2
    /\ pre.fs[call.filepath1] = pre.fs[call.filepath2]
    /\ pre.fs[call.filepath1] = File(render_document(json_loads(DataTwoTables).v).doc)
    /\ result.is_identical = TRUE

\* C10: when two readable documents have different numbers of tables,
\* compare_word_documents returns success True, is_identical False and a
\* differences list that is not empty and holds a "tables_count" entry with
\* both counts; tables are compared pairwise for the first min(count1, count2)
\* positions only.
C10_TablesCount ==
    (ComparedReadable /\ TableCount(pre.fs, call.filepath1) # TableCount(pre.fs, call.filepath2))
    => LET n1 == TableCount(pre.fs, call.filepath1)
           n2 == TableCount(pre.fs, call.filepath2)
           d == result.differences IN
       /\ IsDict(result)
       /\ result.success = TRUE
       /\ result.is_identical = FALSE
       /\ Len(d) > 0
       /\ \E i \in DOMAIN d : d[i] = [type |-> "tables_count", doc1 |-> n1, doc2 |-> n2]
       /\ \A i \in DOMAIN d :
            "table_index" \in DOMAIN d[i] => d[i].table_index \in 1..min(n1, n2)
       /\ \A i, j \in DOMAIN d :
            ("table_index" \in DOMAIN d[i] /\ "table_index" \in DOMAIN d[j] /\ i < j)
                => d[i].table_index < d[j].table_index

\* C10 witness: a document of two tables was compared with a document of one
\* table that differs from the first: the list holds the tables_count entry and
\* an entry for table 1.
C10_Witness ==
    /\ ComparedReadable
    /\ TableCount(pre.fs, call.filepath1) = 2
    /\ TableCount(pre.fs, call.filepath2) = 1
    /\ Len(result.differences) = 2
    /\ result.differences[1] = [type |-> "tables_count", doc1 |-> 2, doc2 |-> 1]
    /\ result.differences[2].table_index = 1

\* The table structure that read_word_document_structure reports for the
\* document at p: its tables list.
ReadTables(F, p) == read_word_document_structure(F, {}, p, NoFault).ret.tables

\* C11: compare_word_documents reports is_identical True only if the two
\* documents have the same number of tables and, at each table position, equal
\* column_widths, row_count, row_heights and cell_widths as reported by
\* read_word_document_structure.  The code compares column_widths,
\* has_explicit_row_heights and row_count only, so this statement is violated.
C11_AsStated ==
    (ComparedReadable /\ IsDict(result) /\ result.success = TRUE /\ result.is_identical = TRUE)
    => LET t1 == ReadTables(pre.fs, call.filepath1)
           t2 == ReadTables(pre.fs, call.filepath2) IN
       /\ Len(t1) = Len(t2)
       /\ \A i \in DOMAIN t1 :
            /\ t1[i].column_widths = t2[i].column_widths
            /\ t1[i].row_count = t2[i].row_count
            /\ t1[i].row_heights = t2[i].row_heights
            /\ t1[i].cell_widths = t2[i].cell_widths

(***************************************************************************)
(* Claims about read_word_document_structure, checked under SpecCompare.   *)
(***************************************************************************)
\* The last call was read_word_document_structure and it succeeded.
ReadSucceeded ==
    /\ call.tool = "read_word_document_structure"
    /\ IsDict(result)
    /\ result.success = TRUE

\* The result is consistent with itself and with the rows of the file read.
\* Sequences are 1-based here: the table at position i of the Python list is
\* tables[i + 1], the row j of the Python list is row_heights[j + 1].
ReadConsistent ==
    LET tbls == Tables(pre.fs[call.filepath].data.body) IN
    /\ result.tables_count = Len(result.tables)
    /\ \A i \in DOMAIN result.tables :
         LET t == result.tables[i] IN
         /\ t.table_index = (i - 1) + 1
         /\ t.row_count = Len(t.row_heights)
         /\ t.row_count = Len(t.cell_widths)
         /\ \A j \in DOMAIN t.row_heights : t.row_heights[j].row_index = j - 1
         /\ t.has_explicit_row_heights
                <=> \E j \in DOMAIN tbls[i].rows : tbls[i].rows[j].height # Absent

\* The document_data of the model that hold exactly one section, of type "table".
OneTableSection ==
    {d \in {DataParagraph, DataOneTable, DataNoHeaders, DataTwoTables, DataRowHeight10,
             DataRowHeight20} :
        LET sections == Get(json_loads(d).v, "sections", JNull) IN
        /\ sections.t = "arr"
        /\ Len(sections.v) = 1
        /\ Get(sections.v[1], "type", JNull) = JStr("table")}

\* The file read was created from document_data d.
ReadCreatedFrom(d) ==
    pre.fs[call.filepath] = File(render_document(json_loads(d).v).doc)

\* C12: every successful result of read_word_document_structure is consistent:
\* tables_count is the length of tables, the i-th table has table_index i+1, a
\* table's row_count is the length of its row_heights and of its cell_widths,
\* row_heights[j].row_index is j, and has_explicit_row_heights is True exactly
\* when a row of the table carries a w:trHeight.  A document created with one
\* table section whose headers are not empty is reported with tables_count 1.
C12_ReadConsistent ==
    ReadSucceeded
    => /\ ReadConsistent
       /\ \A d \in OneTableSection :
            (ReadCreatedFrom(d) /\ Truthy(Get(Get(json_loads(d).v, "sections", JNull).v[1],
                                              "headers", JArr(<<>>))))
                => result.tables_count = 1

\* C12 witness: a document whose first row has a w:trHeight without val was
\* read: two rows, has_explicit_row_heights True, no height reported.
C12_Witness ==
    /\ ReadSucceeded
    /\ pre.fs[call.filepath] = File(ForeignDocument)
    /\ result.tables_count = 1
    /\ result.tables[1].row_count = 2
    /\ result.tables[1].has_explicit_row_heights = TRUE
    /\ result.tables[1].row_heights[1].height = Absent
    /\ result.tables[1].row_heights[2].row_index = 1

\* C12 as stated: in addition, every document created with one table section
\* is reported with tables_count 1.  A table section with empty headers adds
\* no table, so this is violated.
C12_AsStated ==
    ReadSucceeded
    => /\ ReadConsistent
       /\ \A d \in OneTableSection : ReadCreatedFrom(d) => result.tables_count = 1

(***************************************************************************)
(* Spec: every tool of the server.                                         *)
(***************************************************************************)
\* The longest body an edited document is let grow to.
MaxBody == 1

\* The most entries a directory is let receive from convert_word_to_pdf.
MaxPdfs == 1

call_edit_word_document(P, opss, faults) ==
    \E filepath \in P, operations \in opss, fault \in faults :
        LET o == edit_word_document(fs, trash, filepath, operations, fault) IN
        /\ (o.fs[filepath].kind = "file" /\ o.fs[filepath].data.t = "docx")
                => Len(o.fs[filepath].data.body) <= MaxBody
        /\ DoCall([tool |-> "edit_word_document", filepath |-> filepath,
                   operations |-> operations, fault |-> fault], o)

call_convert_txt_to_word(S, P, faults) ==
    \E source_path \in S, target_path \in P, fault \in faults :
        DoCall([tool |-> "convert_txt_to_word", source_path |-> source_path,
                target_path |-> target_path, fault |-> fault],
               convert_txt_to_word(fs, trash, source_path, target_path, fault))

call_create_excel_file(P, contents, faults) ==
    \E filepath \in P, content \in contents, fault \in faults :
        DoCall([tool |-> "create_excel_file", filepath |-> filepath, content |-> content,
                fault |-> fault],
               create_excel_file(fs, trash, filepath, content, fault))

call_edit_excel_file(P, opss, faults) ==
    \E filepath \in P, operations \in opss, fault \in faults :
        DoCall([tool |-> "edit_excel_file", filepath |-> filepath,
                operations |-> operations, fault |-> fault],
               edit_excel_file(fs, trash, filepath, operations, fault))

call_convert_csv_to_excel(S, P, faults) ==
    \E source_path \in S, target_path \in P, fault \in faults :
        DoCall([tool |-> "convert_csv_to_excel", source_path |-> source_path,
                target_path |-> target_path, fault |-> fault],
               convert_csv_to_excel(fs, trash, source_path, target_path, fault))

call_create_pdf_file(P, contents, faults) ==
    \E filepath \in P, content \in contents, fault \in faults :
        DoCall([tool |-> "create_pdf_file", filepath |-> filepath, content |-> content,
                fault |-> fault],
               create_pdf_file(fs, trash, filepath, content, fault))

call_convert_word_to_pdf(S, P, platforms, faults) ==
    \E source_path \in S, target_path \in P, platform \in platforms, fault \in faults :
        LET o == convert_word_to_pdf(fs, trash, source_path, target_path, platform, fault) IN
        /\ \A p \in Paths : o.fs[p].kind = "dir" => o.fs[p].extra <= MaxPdfs
        /\ DoCall([tool |-> "convert_word_to_pdf", source_path |-> source_path,
                   target_path |-> target_path, platform |-> platform, fault |-> fault], o)

\* The operation lists given to edit_word_document: one of each type, a
\* heading level out of range, and an entry that is no dict after one that is.
OpDeleteFirst == JObj([type |-> JStr("delete_paragraph"), index |-> JNum(0)])

WordOperations ==
    {<<JObj([type |-> JStr("add_paragraph"), text |-> JStr("P")])>>,
     <<OpDeleteFirst>>,
     <<JObj([type |-> JStr("add_heading"), text |-> JStr("H"), level |-> JNum(10)])>>,
     <<OpDeleteFirst, JStr("x")>>}

\* The operation lists given to edit_excel_file.
ExcelOperations ==
    {<<JObj([type |-> JStr("update_cell"), row |-> JNum(1), col |-> JNum(1),
             value |-> JStr("v")])>>,
     <<JObj([type |-> JStr("update_cell"), row |-> JNum(0)])>>,
     <<JObj([type |-> JStr("add_sheet"), name |-> JStr("S")]),
       JObj([type |-> JStr("delete_sheet"), sheet |-> JStr("S")])>>,
     <<JObj([type |-> JStr("delete_row")]), JStr("x")>>}

\* The failures of docx2pdf.convert: a path suffix it rejects, an error of Word.
ConvertFaults == {NoFault, Fault("suffix", "AssertionError"), Fault("word", "WordError")}

SaveFaults == FaultsAt({"save"}, {"OSError"})

\* The server starts on a filesystem where "dir" is missing, is a regular
\* file, or is a directory that holds nothing or the text file "dir/a".
Init ==
    /\ fs \in {F \in [Paths -> {Missing, Dir(0), File(Text(<<"a,b", "1,2">>))}] :
                /\ WellFormed(F)
                /\ F["dir/b"] = Missing
                /\ F["dir/a"] # Dir(0)}
    /\ trash = {}
    /\ call = [tool |-> "none"]
    /\ result = NoResult
    /\ pre = [fs |-> fs, trash |-> {}]

Next ==
    \/ call_create_word_document({"dir/a"}, {"Simple content"}, SaveFaults)
    \/ call_create_formatted_word_document({"dir", "dir/a"},
            {DataParagraph, DataBadSection, "[]", "not valid json"}, {NoFault})
    \/ call_read_word_document_structure({"dir/a"}, {NoFault})
    \/ call_compare_word_documents({"dir/a"}, {NoFault})
    \/ call_edit_word_document({"dir/a"}, WordOperations, SaveFaults)
    \/ call_convert_txt_to_word({"dir/a", "dir/b"}, {"dir/a"}, {NoFault})
    \/ call_create_excel_file({"dir/b"}, {"[[\"a\", \"b\"], [1, 2]]", "a,b\n1,2", "5"},
                              {NoFault})
    \/ call_edit_excel_file({"dir/b"}, ExcelOperations, SaveFaults)
    \/ call_convert_csv_to_excel({"dir/a"}, {"dir/b"}, {NoFault})
    \/ call_create_pdf_file({"dir", "dir/b"}, {"a\nb"}, {NoFault})
    \/ call_convert_word_to_pdf({"dir", "dir/a"}, {"dir", "dir/b"}, Platforms, ConvertFaults)
    \/ call_delete_file({"dir/b"}, {"SUPPRESSION DÉFINITIVE", "non"})
    \/ call_delete_directory({"dir"}, {"SUPPRESSION DÉFINITIVE", "non"})

Spec == Init /\ [][Next]_vars

(***************************************************************************)
(* Claims about create_formatted_word_document, checked under SpecCreate.  *)
(***************************************************************************)
\* The last call was create_formatted_word_document on one of `datas`.
FormattedCallOn(datas) ==
    call.tool = "create_formatted_word_document" /\ call.document_data \in datas

\* C5: create_formatted_word_document called with a document_data that is not
\* valid JSON returns success False, a message with "Invalid JSON" and
\* filepath None, and writes nothing: no file at filepath, no parent directory.
C5_InvalidJson ==
    FormattedCallOn({"not valid json", "{\"sections\": ["}) =>
        /\ IsDict(result)
        /\ result.success = FALSE
        /\ result.message[1] = "Invalid JSON format: "
        /\ result.filepath = None
        /\ Unchanged

\* C5 witness: the call was made for a file in a directory that does not
\* exist, and neither exists afterwards.
C5_Witness ==
    /\ FormattedCallOn({"not valid json"})
    /\ call.filepath = "dir/a"
    /\ call.fault = NoFault
    /\ ~exists(pre.fs, "dir")
    /\ ~exists(fs, "dir") /\ ~exists(fs, "dir/a")
    /\ result.success = FALSE

\* The document_data of the model that are JSON objects without "sections".
ObjectsWithoutSections ==
    {"{}",
     "{\"content\": [{\"type\": \"paragraph\", \"text\": \"Hello\"}]}",
     "{\"title\": \"T\", \"header\": \"H\", \"content\": [{\"type\": \"paragraph\", \"text\": \"Hello\"}]}"}

FailingData == {DataBadColour, DataBadLevel, DataBadSection, "[]"}

\* The last call was create_formatted_word_document on JSON whose processing
\* raised, at the top level or in a section.
ProcessingRaised ==
    /\ call.tool = "create_formatted_word_document"
    /\ json_loads(call.document_data).ok
    /\ render_document(json_loads(call.document_data).v).exc # None

\* Nothing was written: failure is returned and the filesystem is as it was.
NothingWritten ==
    /\ IsDict(result)
    /\ result.success = FALSE
    /\ result.filepath = None
    /\ fs = pre.fs

\* C17: create_formatted_word_document is all-or-nothing: the document is
\* saved only after every section has been processed, so when the top level is
\* no object or a section fails (a colour whose hex pairs do not parse, a
\* heading level the library rejects, a section that is no object) the call
\* returns success False with filepath None, creates no file and leaves a file
\* that was at filepath unchanged.
C17_AllOrNothing ==
    /\ ProcessingRaised => NothingWritten
    /\ FormattedCallOn(FailingData) => NothingWritten

\* C17 witness: the second section has a colour that does not parse and
\* filepath held a file, which is still there.
C17_Witness ==
    /\ FormattedCallOn({DataBadColour})
    /\ pre.fs[call.filepath].kind = "file"
    /\ fs[call.filepath] = pre.fs[call.filepath]
    /\ result.success = FALSE

\* document_data of the model whose only section has a colour that is not a
\* 6-digit hex string.
NotSixDigitColour == {DataLongColour}

\* C17 as stated: every colour that is not a 6-digit hex string makes its
\* section fail.  The code parses the first six characters only, so a longer
\* string that starts with six hex digits is accepted and the file is written.
C17_AsStated ==
    /\ C17_AllOrNothing
    /\ FormattedCallOn(NotSixDigitColour) => NothingWritten

(***************************************************************************)
(* Claims about every tool, checked under Spec.                            *)
(***************************************************************************)
\* The tools that produce a file at a path they are given.
FileProducing ==
    {"create_word_document", "create_formatted_word_document", "convert_txt_to_word",
     "create_excel_file", "convert_csv_to_excel", "create_pdf_file", "convert_word_to_pdf"}

\* The path at which the last call was asked to produce its file.
TargetPath == IF "target_path" \in DOMAIN call THEN call.target_path ELSE call.filepath

\* The last call was one of a file-producing tool; for
\* create_formatted_word_document, one whose document_data is a JSON object
\* made of supported section types.
ProducingCall ==
    /\ call.tool \in FileProducing
    /\ call.tool = "create_formatted_word_document" => call.document_data = DataParagraph

\* C6: whenever a file-producing tool returns success True, the result's
\* filepath is the requested target path, a file exists at that path when the
\* call returns, and the parent directory of the path exists.
C6_AsStated ==
    (ProducingCall /\ IsDict(result) /\ result.success = TRUE)
    => /\ result.filepath = TargetPath
       /\ fs[TargetPath].kind = "file"
       /\ isdir(fs, dirname(TargetPath))

\* C7: no tool lets an exception reach its caller: every call returns a dict
\* whose "success" is a boolean, a failure is returned as success False with a
\* message, and read_word_document_structure on a path that does not exist
\* returns success False.
C7_AsStated ==
    call.tool # "none"
    => /\ IsDict(result)
       /\ result.success \in BOOLEAN
       /\ result.success = FALSE => "message" \in DOMAIN result
       /\ (call.tool = "read_word_document_structure" /\ ~exists(pre.fs, call.filepath))
              => result.success = FALSE

\* The handler that the server runs for call c, applied to the filesystem F
\* and the trash T: the tool's function and the arguments of the call.
Handler(c, F, T) ==
    CASE c.tool = "create_word_document" ->
            create_word_document(F, T, c.filepath, c.content, c.fault)
      [] c.tool = "create_formatted_word_document" ->
            create_formatted_word_document(F, T, c.filepath, c.document_data, c.fault)
      [] c.tool = "read_word_document_structure" ->
            read_word_document_structure(F, T, c.filepath, c.fault)
      [] c.tool = "compare_word_documents" ->
            compare_word_documents(F, T, c.filepath1, c.filepath2, c.fault)
      [] c.tool = "edit_word_document" ->
            edit_word_document(F, T, c.filepath, c.operations, c.fault)
      [] c.tool = "convert_txt_to_word" ->
            convert_txt_to_word(F, T, c.source_path, c.target_path, c.fault)
      [] c.tool = "create_excel_file" ->
            create_excel_file(F, T, c.filepath, c.content, c.fault)
      [] c.tool = "edit_excel_file" ->
            edit_excel_file(F, T, c.filepath, c.operations, c.fault)
      [] c.tool = "convert_csv_to_excel" ->
            convert_csv_to_excel(F, T, c.source_path, c.target_path, c.fault)
      [] c.tool = "create_pdf_file" ->
            create_pdf_file(F, T, c.filepath, c.content, c.fault)
      [] c.tool = "convert_word_to_pdf" ->
            convert_word_to_pdf(F, T, c.source_path, c.target_path, c.platform, c.fault)
      [] c.tool = "delete_file" -> delete_file(F, T, c.filepath, c.confirm, c.fault)
      [] c.tool = "delete_directory" -> delete_directory(F, T, c.dirpath, c.confirm, c.fault)

SourcePath == IF "source_path" \in DOMAIN call THEN call.source_path ELSE call.filepath

\* The last call was one of an editing or converting tool on a path that did
\* not exist.
SourceMissing ==
    /\ call.tool \in {"edit_word_document", "edit_excel_file", "convert_txt_to_word",
                      "convert_csv_to_excel", "convert_word_to_pdf"}
    /\ ~exists(pre.fs, SourcePath)

\* C14: path validation precedes every effect: edit_word_document and
\* edit_excel_file on a filepath that does not exist, and convert_txt_to_word,
\* convert_csv_to_excel and convert_word_to_pdf on a source_path that does not
\* exist, return success False with a not-found message and filepath None, and
\* leave the filesystem as it was: no file at the target, no parent directory.
C14_SourceMissing ==
    SourceMissing
    => /\ IsDict(result)
       /\ result.success = FALSE
       /\ result.message =
            (IF "source_path" \in DOMAIN call
             THEN <<"Source file not found: ", call.source_path>>
             ELSE <<"File not found: ", call.filepath>>)
       /\ result.filepath = None
       /\ fs = pre.fs
       /\ trash = pre.trash

\* C14 witness: a conversion from a path that does not exist to a target
\* whose parent directory does not exist either; the directory was not made.
C14_Witness ==
    /\ SourceMissing
    /\ call.tool = "convert_csv_to_excel"
    /\ ~exists(pre.fs, dirname(call.target_path))
    /\ ~exists(fs, dirname(call.target_path))
    /\ result.success = FALSE

\* The last call was an edit of a file that the tool could open, and one of
\* its operations raised.
OperationRaised ==
    /\ call.tool \in {"edit_word_document", "edit_excel_file"}
    /\ exists(pre.fs, call.filepath)
    /\ ~Fails(call.fault, "open")
    /\ \/ /\ call.tool = "edit_word_document"
          /\ Document_raises(pre.fs, call.filepath) = None
          /\ edit_word_operations(pre.fs[call.filepath].data, call.operations).exc # None
       \/ /\ call.tool = "edit_excel_file"
          /\ load_workbook_raises(pre.fs, call.filepath) = None
          /\ edit_excel_operations(pre.fs[call.filepath].data, call.operations).exc # None

\* C16: the edit tools write the file only after every operation has been
\* applied in memory: when an operation of an edit_word_document or
\* edit_excel_file call raises, the call returns success False with filepath
\* None and the file is what it was before the call, the effects of the
\* operations before the failing one included.
C16_OperationRaises ==
    OperationRaised
    => /\ IsDict(result)
       /\ result.success = FALSE
       /\ result.filepath = None
       /\ fs = pre.fs

\* C16 witness: a document with a paragraph was given a delete of that
\* paragraph followed by an entry that is no dict; the paragraph is still there.
C16_Witness ==
    /\ OperationRaised
    /\ call.tool = "edit_word_document"
    /\ call.operations = <<OpDeleteFirst, JStr("x")>>
    /\ Len(paragraphs(pre.fs[call.filepath].data)) > 0
    /\ result.success = FALSE
    /\ fs[call.filepath] = pre.fs[call.filepath]


(***************************************************************************)
(* SpecEdit: edit_word_document on documents of several paragraphs, with   *)
(* and without a table between them.                                       *)
(***************************************************************************)
\* The most blocks the body of an edited document is let grow to.
MaxBlocks == 4

PlainPara(text) == Para("Normal", None, <<Run(text, FALSE, FALSE)>>)

\* Three paragraphs; two paragraphs around a table.
ThreeParagraphs == Docx(None, None, <<PlainPara("p0"), PlainPara("p1"), PlainPara("p2")>>)
AroundTable == Docx(None, None, <<PlainPara("p0"), new_table(1, 1), PlainPara("p1")>>)

OpAdd(text) == JObj([type |-> JStr("add_paragraph"), text |-> JStr(text)])
OpHeading(text, level) ==
    JObj([type |-> JStr("add_heading"), text |-> JStr(text), level |-> JNum(level)])
OpEdit(index, text) ==
    JObj([type |-> JStr("edit_paragraph"), index |-> JNum(index), text |-> JStr(text)])
OpDelete(index) == JObj([type |-> JStr("delete_paragraph"), index |-> JNum(index)])

\* The operation lists of SpecEdit: adds, deletes and edits in and out of
\* range, an edit after a delete at the same index, an unknown type, an entry
\* that raises after one that does not.
EditOperations ==
    {<<OpAdd("P")>>,
     <<OpHeading("H", 1)>>,
     <<OpDelete(0), OpEdit(0, "E")>>,
     <<OpDelete(1), OpDelete(1)>>,
     <<OpAdd("P"), OpDelete(0), OpEdit(5, "E")>>,
     <<OpDelete(7), OpDelete(-1)>>,
     <<OpEdit(1, "E"), OpAdd("Q"), OpDelete(2)>>,
     <<JObj([type |-> JStr("rename")])>>,
     <<OpDelete(0), OpHeading("H", 10)>>,
     <<OpDelete(7), JObj(NoFields), OpAdd("Q")>>}

call_edit(P, opss, faults) ==
    \E filepath \in P, operations \in opss, fault \in faults :
        LET o == edit_word_document(fs, trash, filepath, operations, fault) IN
        /\ (o.fs[filepath].kind = "file" /\ o.fs[filepath].data.t = "docx")
                => Len(o.fs[filepath].data.body) <= MaxBlocks
        /\ DoCall([tool |-> "edit_word_document", filepath |-> filepath,
                   operations |-> operations, fault |-> fault], o)

InitEdit ==
    /\ fs \in {F \in [Paths -> {Missing, Dir(0), File(ThreeParagraphs), File(AroundTable)}] :
                /\ F["dir"] = Dir(0)
                /\ F["dir/a"] # Dir(0)
                /\ F["dir/b"] = Missing}
    /\ trash = {}
    /\ call = [tool |-> "none"]
    /\ result = NoResult
    /\ pre = [fs |-> fs, trash |-> {}]

NextEdit == call_edit({"dir/a"}, EditOperations, SaveFaults)

SpecEdit == InitEdit /\ [][NextEdit]_vars

\* doc.paragraphs: the paragraphs of the body in order.
ParagraphList(doc) == [i \in DOMAIN paragraphs(doc) |-> doc.body[paragraphs(doc)[i]]]

AddTypes == {JStr("add_paragraph"), JStr("add_heading")}

\* What one operation does to a list of paragraphs, as C15 describes it.
ListStep(ps, op) ==
    LET op_type == Get(op, "type", JNull)
        idx == Get(op, "index", JNum(0)).v
        InRange == 0 <= idx /\ idx < Len(ps) IN
    CASE op_type = JStr("add_paragraph") -> Append(ps, PlainPara(op.v.text.v))
      [] op_type = JStr("add_heading") ->
            Append(ps, Para("Heading " \o ToString(op.v.level.v), None,
                            <<Run(op.v.text.v, FALSE, FALSE)>>))
      [] op_type = JStr("edit_paragraph") ->
            (IF InRange THEN [ps EXCEPT ![idx + 1].runs = <<Run(op.v.text.v, FALSE, FALSE)>>]
             ELSE ps)
      [] op_type = JStr("delete_paragraph") -> (IF InRange THEN Remove(ps, idx + 1) ELSE ps)
      [] OTHER -> ps

\* The operations in list order, each on the list the one before it left.
RECURSIVE ListSteps(_, _)
ListSteps(ps, operations) ==
    IF operations = <<>> THEN ps
    ELSE ListSteps(ListStep(ps, Head(operations)), Tail(operations))

\* The number of add operations and of in-range deletes of the list, the
\* range of a delete being that of the list when its turn comes.
RECURSIVE Adds(_)
Adds(operations) ==
    IF operations = <<>> THEN 0
    ELSE (IF Get(Head(operations), "type", JNull) \in AddTypes THEN 1 ELSE 0)
         + Adds(Tail(operations))

RECURSIVE InRangeDeletes(_, _)
InRangeDeletes(ps, operations) ==
    IF operations = <<>> THEN 0
    ELSE LET op == Head(operations) IN
         (IF /\ Get(op, "type", JNull) = JStr("delete_paragraph")
             /\ 0 <= op.v.index.v /\ op.v.index.v < Len(ps)
          THEN 1 ELSE 0)
         + InRangeDeletes(ListStep(ps, op), Tail(operations))

\* The last call was a successful edit_word_document.
Edited ==
    /\ call.tool = "edit_word_document"
    /\ IsDict(result)
    /\ result.success = TRUE

\* C15: edit_word_document applies its operations in list order to the
\* paragraph list and saves once at the end: an add appends one paragraph at
\* the end of the body, the index of an edit or a delete is resolved against
\* the list as the preceding operations left it, and the final paragraph count
\* is the initial count plus the adds minus the in-range deletes.
C15_EditInOrder ==
    Edited
    => LET before == pre.fs[call.filepath].data
           after == fs[call.filepath].data
           ps == ParagraphList(before) IN
       /\ ParagraphList(after) = ListSteps(ps, call.operations)
       /\ Len(ParagraphList(after))
            = Len(ps) + Adds(call.operations) - InRangeDeletes(ps, call.operations)
       /\ Tables(after.body) = Tables(before.body)
       /\ Get(call.operations[Len(call.operations)], "type", JNull) \in AddTypes
            => after.body[Len(after.body)]
                    = ParagraphList(after)[Len(ParagraphList(after))]
       /\ \A p \in Paths \ {call.filepath} : fs[p] = pre.fs[p]

\* C15 witness: after the delete at index 0 of three paragraphs, the edit at
\* index 0 changed the paragraph that was at index 1.
C15_Witness ==
    /\ Edited
    /\ call.operations = <<OpDelete(0), OpEdit(0, "E")>>
    /\ pre.fs[call.filepath] = File(ThreeParagraphs)
    /\ fs[call.filepath].data.body = <<PlainPara("E"), PlainPara("p2")>>

(***************************************************************************)
(* SpecRichText: _parse_rich_text on every text of up to MaxText           *)
(* characters drawn from a letter, the star and the line break.            *)
(***************************************************************************)
\* The longest text given to _parse_rich_text.
MaxText == 4

TextChars == {"a", "*", "\n"}

Texts == UNION {[1..n -> TextChars] : n \in 0..MaxText}

call_parse_rich_text ==
    \E text \in Texts, default_italic \in BOOLEAN :
        /\ call' = [tool |-> "_parse_rich_text", text |-> text,
                    default_italic |-> default_italic]
        /\ result' = [tool |-> "_parse_rich_text",
                      runs |-> parse_rich_text(text, default_italic)]
        /\ pre' = [fs |-> fs, trash |-> trash]
        /\ UNCHANGED <<fs, trash>>

InitRichText ==
    /\ fs = [p \in Paths |-> Missing]
    /\ trash = {}
    /\ call = [tool |-> "none"]
    /\ result = NoResult
    /\ pre = [fs |-> fs, trash |-> {}]

NextRichText == call_parse_rich_text

SpecRichText == InitRichText /\ [][NextRichText]_vars

\* The run texts one after the other.
RECURSIVE RunTexts(_)
RunTexts(runs) == IF runs = <<>> THEN "" ELSE Head(runs).text \o RunTexts(Tail(runs))

\* The text without the markers of its matched pairs, from position i on: a
\* pair is an opening '**' and the nearest closing '**' on the same line.
RECURSIVE WithoutPairs(_, _)
WithoutPairs(chars, i) ==
    IF i > Len(chars) THEN <<>>
    ELSE LET j == ClosingAt(chars, i) IN
         IF j = 0 THEN <<chars[i]>> \o WithoutPairs(chars, i + 1)
         ELSE SubSeq(chars, i + 2, j - 1) \o WithoutPairs(chars, j + 2)

\* C18: _parse_rich_text preserves the text: the concatenation of the run
\* texts is the input text with exactly the matched marker pairs removed; no
\* other character is dropped, unpaired '**' or '*' included.  A part left
\* over that begins and ends with '**' loses them, so this is violated.
C18_AsStated ==
    call.tool = "_parse_rich_text"
    => RunTexts(result.runs) = Join(WithoutPairs(call.text, 1))

(***************************************************************************)
(* SpecTable: documents with one table section are created and read.       *)
(***************************************************************************)
\* document_data whose one section is a "table" or a "key_value_table".
TableData ==
    {DataOneTable, DataRagged, DataNoHeaders, DataMissingHeaders, DataKeyValueRagged,
     DataValues, DataWidths, DataWidthsLong, DataWidthsEmpty, DataKeyValueWidths}

InitTable ==
    /\ fs = [p \in Paths |-> IF p = "dir" THEN Dir(0) ELSE Missing]
    /\ trash = {}
    /\ call = [tool |-> "none"]
    /\ result = NoResult
    /\ pre = [fs |-> fs, trash |-> {}]

NextTable ==
    \/ call_create_formatted_word_document({"dir/a", "dir/b"}, TableData, {NoFault})
    \/ call_read_word_document_structure({"dir/a", "dir/b"}, {NoFault})

SpecTable == InitTable /\ [][NextTable]_vars

\* The one section of document_data d.
SectionOf(d) == Get(json_loads(d).v, "sections", JNull).v[1]

\* The last call created a document from data of TableData.
CreatedTable ==
    /\ FormattedCallOn(TableData)
    /\ IsDict(result)
    /\ result.success = TRUE

\* The rows of the table hold the values: row r has `cols` cells, and its cell
\* c holds str(values[r][c]) when the list has a c-th value, "" otherwise.
Holds(tbl, values, cols) ==
    /\ Len(tbl.rows) = Len(values)
    /\ \A r \in DOMAIN tbl.rows :
        /\ Len(tbl.rows[r].cells) = cols
        /\ \A c \in 1..cols :
            tbl.rows[r].cells[c].text
                = (IF c <= Len(values[r]) THEN str(values[r][c]) ELSE "")

\* The lists of JSON values of a JSON list of lists.
Lists(rows) == [r \in DOMAIN rows.v |-> rows.v[r].v]

\* C19: a "table" section with non-empty headers produces a table of
\* 1 + len(rows) rows and len(headers) columns, the headers in its first row
\* and str(rows[r][c]) in row r+1, column c; values beyond len(headers) are
\* dropped and missing values leave the cell empty.  A "table" section with
\* empty or missing headers adds nothing.  A "key_value_table" has as many
\* columns as its first row has values and drops the values beyond.
C19_TableShape ==
    CreatedTable
    => LET section == SectionOf(call.document_data)
           headers == Get(section, "headers", JArr(<<>>))
           rows == Get(section, "rows", JArr(<<>>))
           body == fs[call.filepath].data.body IN
       /\ (section.v.type = JStr("table") /\ Truthy(headers))
            => /\ Len(Tables(body)) = 1
               /\ Holds(Tables(body)[1], <<headers.v>> \o Lists(rows), Len(headers.v))
       /\ (section.v.type = JStr("table") /\ ~Truthy(headers)) => body = <<>>
       /\ (section.v.type = JStr("key_value_table") /\ Truthy(rows))
            => /\ Len(Tables(body)) = 1
               /\ Holds(Tables(body)[1], Lists(rows), Len(rows.v[1].v))

\* C19 witness: the table of three data rows of 3, 1 and 0 values under two
\* headers: "3" is dropped, the cells without a value are empty.
C19_Witness ==
    /\ CreatedTable
    /\ call.document_data = DataRagged
    /\ LET tbl == Tables(fs[call.filepath].data.body)[1] IN
       /\ Len(tbl.rows) = 4
       /\ [c \in 1..2 |-> tbl.rows[2].cells[c].text] = <<"1", "2">>
       /\ [c \in 1..2 |-> tbl.rows[3].cells[c].text] = <<"4", "">>
       /\ [c \in 1..2 |-> tbl.rows[4].cells[c].text] = <<"", "">>

\* The read of a document created from d reports the col_widths of d's
\* section: one table with one grid, the widths in order, no cell width.
WidthsReported(d) ==
    (ReadSucceeded /\ ReadCreatedFrom(d))
    => LET W == Get(SectionOf(d), "col_widths", JNull).v
           tbls == Tables(pre.fs[call.filepath].data.body) IN
       /\ result.tables_count = 1
       /\ Len(tbls[1].grid) = 1
       /\ result.tables[1].column_widths = [i \in DOMAIN W |-> W[i].v]
       /\ result.tables[1].column_widths_source = "tblGrid"
       /\ \A r \in DOMAIN result.tables[1].cell_widths :
            \A c \in DOMAIN result.tables[1].cell_widths[r] :
                result.tables[1].cell_widths[r][c] = Absent

\* C20: column widths round-trip: a document created with one table section
\* that gives col_widths as a list W of integers that is not empty is read
\* with column_widths equal to W in order, column_widths_source "tblGrid", one
\* grid in the table and every entry of cell_widths None.
C20_WidthsRoundTrip ==
    \A d \in {DataWidths, DataWidthsLong, DataKeyValueWidths} : WidthsReported(d)

\* C20 witness: the table created with col_widths [3000, 6000] was read.
C20_Witness ==
    /\ ReadSucceeded
    /\ ReadCreatedFrom(DataWidths)
    /\ result.tables[1].column_widths = <<3000, 6000>>
    /\ result.tables[1].cell_widths = <<<<Absent, Absent>>, <<Absent, Absent>>>>

\* C20 as stated: for every list W of integers, the empty list included.  An
\* empty col_widths is not applied (line 494), the table keeps the grid and the
\* cell widths it was made with, so this is violated.
C20_AsStated ==
    \A d \in {DataWidths, DataWidthsLong, DataKeyValueWidths, DataWidthsEmpty} :
        WidthsReported(d)

(***************************************************************************)
(* Claims about skipped operations, checked under SpecEdit.                *)
(***************************************************************************)
OperationTypes ==
    {JStr("add_paragraph"), JStr("add_heading"), JStr("edit_paragraph"),
     JStr("delete_paragraph")}

\* The operation is one C21 calls skipped on a document of n paragraphs: an
\* edit or a delete whose index is negative or not less than n, or an
\* operation whose type is unknown or missing.
SkippedOn(op, n) ==
    /\ op.t = "obj"
    /\ LET op_type == Get(op, "type", JNull)
           idx == Get(op, "index", JNum(0)) IN
       \/ op_type \notin OperationTypes
       \/ /\ op_type \in {JStr("edit_paragraph"), JStr("delete_paragraph")}
          /\ idx.t = "num"
          /\ (idx.v < 0 \/ idx.v >= n)

\* The operations without those that are skipped when their turn comes.
RECURSIVE Applied(_, _)
Applied(doc, operations) ==
    IF operations = <<>> THEN <<>>
    ELSE LET op == Head(operations)
             r == edit_word_operation(doc, op) IN
         IF SkippedOn(op, Len(paragraphs(doc))) THEN Applied(doc, Tail(operations))
         ELSE IF r.exc # None THEN <<op>>
         ELSE <<op>> \o Applied(r.doc, Tail(operations))

\* The last call was edit_word_document on a document it could open, with an
\* operation that is skipped, and its save did not fail.
EditWithSkipped ==
    /\ call.tool = "edit_word_document"
    /\ call.fault = NoFault
    /\ exists(pre.fs, call.filepath)
    /\ Document_raises(pre.fs, call.filepath) = None
    /\ Applied(pre.fs[call.filepath].data, call.operations) # call.operations

\* C21: in edit_word_document an edit_paragraph or delete_paragraph whose
\* index is negative or not less than the current paragraph count, and an
\* operation whose type is unknown or missing, are skipped: they change
\* nothing, the other operations are applied as if the skipped ones were not
\* in the list, and the call returns success True unless one of those raises.
C21_SkippedOperations ==
    EditWithSkipped
    => LET before == pre.fs[call.filepath].data
           rest == Applied(before, call.operations)
           r == edit_word_operations(before, rest) IN
       /\ IsDict(result)
       /\ result.success = (r.exc = None)
       /\ r.exc = None => fs[call.filepath].data = r.doc
       /\ rest = <<>> => (result.success = TRUE /\ fs[call.filepath].data = before)

\* C21 witness: a delete out of range and an operation without type were
\* skipped, the add after them was applied.
C21_Witness ==
    /\ EditWithSkipped
    /\ call.operations = <<OpDelete(7), JObj(NoFields), OpAdd("Q")>>
    /\ pre.fs[call.filepath] = File(ThreeParagraphs)
    /\ result.success = TRUE
    /\ fs[call.filepath].data.body
            = <<PlainPara("p0"), PlainPara("p1"), PlainPara("p2"), PlainPara("Q")>>


(***************************************************************************)
(* edit_excel_file on the sheets of a workbook: the server starts with     *)
(* "dir/b" missing or the one-sheet workbook convert_csv_to_excel writes,  *)
(* and every call gives one list of operations on sheets.                  *)
(***************************************************************************)
\* The most sheets a workbook of the model holds.
MaxSheets == 3

\* The workbook df.to_excel writes for the file "a,b\n1,2".
SheetAB == to_excel(DataFrame(<<JStr("a"), JStr("b")>>, <<<<JNum(1), JNum(2)>>>>))

AddSheet(name) == JObj([type |-> JStr("add_sheet"), name |-> JStr(name)])
AddSheetOn(sheet, name) ==
    JObj([type |-> JStr("add_sheet"), sheet |-> JStr(sheet), name |-> JStr(name)])
DeleteSheet == JObj([type |-> JStr("delete_sheet")])
OnSheet(type, sheet) == JObj([type |-> JStr(type), sheet |-> JStr(sheet)])
UpdateFirst == JObj([type |-> JStr("update_cell"), value |-> JStr("v")])

\* The operation types the loop knows but delete_sheet, and one it does not.
SheetTypes == {"update_cell", "update_range", "delete_row", "delete_column", "add_sheet",
               "rename"}

\* The operations on sheets: each type on a sheet the workbook may lack, with
\* a title that differs from "Sheet1" in case only, and an operation that
\* has neither a type nor a sheet.
SheetOps ==
    {AddSheet("X"), AddSheet("sheet1"), AddSheetOn("X", "Y"), AddSheetOn("Y", "X"),
     DeleteSheet, OnSheet("delete_sheet", "X"),
     OnSheet("rename", "sheet1"), JObj([sheet |-> JStr("X")]), UpdateFirst, JObj(NoFields)}
        \cup {OnSheet(type, "X") : type \in SheetTypes}

\* The operation lists: every operation alone, and two pairs.
SheetOperations ==
    {<<op>> : op \in SheetOps}
        \cup {<<AddSheet("X"), AddSheet("X")>>, <<AddSheet("X"), OnSheet("delete_sheet", "X")>>}

call_edit_sheets(P, opss, faults) ==
    \E filepath \in P, operations \in opss, fault \in faults :
        LET o == edit_excel_file(fs, trash, filepath, operations, fault) IN
        /\ (o.fs[filepath].kind = "file" /\ o.fs[filepath].data.t = "xlsx")
                => Len(o.fs[filepath].data.sheets) <= MaxSheets
        /\ DoCall([tool |-> "edit_excel_file", filepath |-> filepath,
                   operations |-> operations, fault |-> fault], o)

InitExcel ==
    /\ fs \in {F \in [Paths -> {Missing, Dir(0), File(SheetAB)}] :
                /\ F["dir"] = Dir(0)
                /\ F["dir/a"] = Missing
                /\ F["dir/b"] # Dir(0)}
    /\ trash = {}
    /\ call = [tool |-> "none"]
    /\ result = NoResult
    /\ pre = [fs |-> fs, trash |-> {}]

NextExcel == call_edit_sheets({"dir/b"}, SheetOperations, {NoFault})

SpecExcel == InitExcel /\ [][NextExcel]_vars

\* The last call was edit_excel_file on a workbook, with no failure of the
\* filesystem.
ExcelCall ==
    /\ call.tool = "edit_excel_file"
    /\ call.fault = NoFault
    /\ pre.fs[call.filepath].kind = "file"
    /\ pre.fs[call.filepath].data.t = "xlsx"

\* The workbook before the call and the workbook in the file after it.
Loaded == pre.fs[call.filepath].data
Saved == fs[call.filepath].data

\* wb.sheetnames as a set.
NameSet(wb) == {wb.sheets[i].title : i \in DOMAIN wb.sheets}

\* The call gave the one operation op.
OneOp(op) == call.operations = <<op>>

(***************************************************************************)
(* C22: after an edit_excel_file call that returns success True the saved  *)
(* workbook has at least one sheet and distinct sheet names; delete_sheet  *)
(* on a workbook of one sheet changes nothing; add_sheet with a name the   *)
(* workbook has changes nothing; add_sheet applied again to the workbook   *)
(* it produced changes nothing.                                            *)
(***************************************************************************)
SheetsDistinct(wb) ==
    /\ Len(wb.sheets) >= 1
    /\ \A i, j \in DOMAIN wb.sheets : wb.sheets[i].title = wb.sheets[j].title => i = j

C22_AsStated ==
    (ExcelCall /\ IsDict(result) /\ result.success = TRUE)
    => /\ SheetsDistinct(Saved)
       /\ \A op \in SheetOps :
            (OneOp(op) /\ Get(op, "type", JNull) = JStr("delete_sheet") /\ Len(Loaded.sheets) = 1)
            => Saved = Loaded
       /\ \A op \in SheetOps :
            (OneOp(op) /\ Get(op, "type", JNull) = JStr("add_sheet"))
            => /\ has_sheet(Loaded, Get(op, "name", JStr("NewSheet")).v) => Saved = Loaded
               /\ edit_excel_operation(Saved, op) = WbOk(Saved)


(***************************************************************************)
(* C23: an edit_excel_file operation whose "sheet" names a sheet the       *)
(* workbook lacks creates that sheet, whatever its type but delete_sheet;  *)
(* an operation without "sheet" works on the first sheet; delete_sheet of  *)
(* a sheet the workbook lacks leaves the set of sheet names as it was;     *)
(* add_sheet with "sheet" X and "name" Y leaves both X and Y present.      *)
(***************************************************************************)
\* The operation names, in "sheet", a sheet the loaded workbook lacks.
OnAbsentSheet(op) ==
    /\ "sheet" \in DOMAIN op.v
    /\ ~has_sheet(Loaded, op.v.sheet.v)

C23_AsStated ==
    ExcelCall
    => \A op \in SheetOps :
        OneOp(op)
        => /\ (OnAbsentSheet(op) /\ Get(op, "type", JNull) # JStr("delete_sheet"))
                => has_sheet(Saved, op.v.sheet.v)
           /\ op = UpdateFirst
                => Saved = [Loaded EXCEPT !.sheets[1].cells = set_cell(@, 1, 1, JStr("v"))]
           /\ (OnAbsentSheet(op) /\ Get(op, "type", JNull) = JStr("delete_sheet"))
                => NameSet(Saved) = NameSet(Loaded)
           /\ (Get(op, "type", JNull) = JStr("add_sheet") /\ "sheet" \in DOMAIN op.v)
                => /\ has_sheet(Saved, op.v.sheet.v)
                   /\ has_sheet(Saved, Get(op, "name", JStr("NewSheet")).v)


(***************************************************************************)
(* create_pdf_file on contents of 1 to MaxLines lines.                     *)
(***************************************************************************)
InitPdf ==
    /\ fs \in {F \in [Paths -> {Missing, Dir(0)}] : WellFormed(F) /\ F["dir/b"] = Missing}
    /\ trash = {}
    /\ call = [tool |-> "none"]
    /\ result = NoResult
    /\ pre = [fs |-> fs, trash |-> {}]

\* The line counts of the contents given: those around the multiples of 16,
\* so around 48 and 96.
LineCounts == {n \in 1..MaxLines : n % 16 \in {0, 1}}

NextPdf == call_create_pdf_file({"dir/a"}, {LongContents[n] : n \in LineCounts}, {NoFault})

SpecPdf == InitPdf /\ [][NextPdf]_vars

\* The last call was create_pdf_file and returned success True.
PdfCreated ==
    /\ call.tool = "create_pdf_file"
    /\ IsDict(result)
    /\ result.success = TRUE

(***************************************************************************)
(* C24: create_pdf_file draws line k (0-based) of the n >= 1 lines of the  *)
(* content on page k \div 48 at x = 40 and y = 752 - 15 * (k % 48): every  *)
(* y is from 40 to 752, no page holds more than 48 lines, the pages before *)
(* the last hold 48 lines each, and the lines are in input order.          *)
(***************************************************************************)
C24_Pagination ==
    PdfCreated
    => LET lines == split_lines(call.content)
           n == Len(lines)
           pages == fs[call.filepath].data.pages IN
       /\ n >= 1
       /\ Len(pages) = ((n - 1) \div 48) + 1
       /\ \A p \in DOMAIN pages :
            /\ Len(pages[p]) = IF p < Len(pages) THEN 48 ELSE n - 48 * (p - 1)
            /\ Len(pages[p]) <= 48
            /\ \A i \in DOMAIN pages[p] : 40 <= pages[p][i].y /\ pages[p][i].y <= 752
       /\ \A k \in 0..(n - 1) :
            pages[(k \div 48) + 1][(k % 48) + 1]
                = [x |-> 40, y |-> 752 - 15 * (k % 48), text |-> lines[k + 1]]

\* A content of 97 lines was drawn on three pages, its last line alone on the
\* third.
C24_Witness ==
    /\ PdfCreated
    /\ Len(split_lines(call.content)) = 97
    /\ Len(fs[call.filepath].data.pages) = 3
    /\ fs[call.filepath].data.pages[3] = <<[x |-> 40, y |-> 752, text |-> "a"]>>


(***************************************************************************)
(* C25: every result of delete_file and delete_directory, from a guard,    *)
(* from the removal or from an except clause, has deleted equal to         *)
(* success, echoes the path argument under "filepath" or "dirpath", and    *)
(* has a "method" key exactly when deleted is True, with the value "trash" *)
(* or "permanent".  Checked under SpecFiles.                               *)
(***************************************************************************)
C25_DeleteResultShape ==
    call.tool \in {"delete_file", "delete_directory"}
    => /\ IsDict(result)
       /\ "deleted" \in DOMAIN result
       /\ result.deleted = result.success
       /\ call.tool = "delete_file"
            => ("filepath" \in DOMAIN result /\ result.filepath = call.filepath)
       /\ call.tool = "delete_directory"
            => ("dirpath" \in DOMAIN result /\ result.dirpath = call.dirpath)
       /\ ("method" \in DOMAIN result) <=> (result.deleted = TRUE)
       /\ "method" \in DOMAIN result => result.method \in {"trash", "permanent"}

\* os.remove raised PermissionError in delete_file: the except clause answered
\* with the filepath and without a method.
C25_Witness ==
    /\ DeleteCallOn("delete_file", "file")
    /\ call.confirm = "SUPPRESSION DÉFINITIVE"
    /\ call.fault = Fault("remove", "PermissionError")
    /\ result.message = <<"Permission denied: ", call.filepath>>
    /\ result.filepath = call.filepath
    /\ result.deleted = FALSE
    /\ "method" \notin DOMAIN result


(***************************************************************************)
(* C26: create_formatted_word_document skips a section whose type is       *)
(* unknown or missing: the call writes the document and returns what it    *)
(* would without these sections, so success True when the other sections   *)
(* render and the file can be written; a "spacer" section adds one empty   *)
(* paragraph and a paragraph section with an alignment other than center,  *)
(* right and justify is left-aligned.  Checked under SpecCreate.           *)
(***************************************************************************)
SectionTypes == {"heading", "paragraph", "bullet_list", "numbered_list", "table",
                 "key_value_table", "page_break", "spacer"}

\* A section the loop has no branch for.
SkippedSection(section) ==
    /\ section.t = "obj"
    /\ Get(section, "type", JNull) \notin {JStr(type) : type \in SectionTypes}

\* The sections without the skipped ones, in their order.
RECURSIVE Rendered(_)
Rendered(sections) ==
    IF sections = <<>> THEN <<>>
    ELSE IF SkippedSection(Head(sections)) THEN Rendered(Tail(sections))
    ELSE <<Head(sections)>> \o Rendered(Tail(sections))

\* The last call gave create_formatted_word_document a JSON object with a list
\* of sections.
SectionsCall ==
    /\ call.tool = "create_formatted_word_document"
    /\ json_loads(call.document_data).ok
    /\ json_loads(call.document_data).v.t = "obj"
    /\ sections_of(json_loads(call.document_data).v).t = "arr"

CallSections == sections_of(json_loads(call.document_data).v).v

\* The file can be written: no failure of the filesystem, a parent that is a
\* directory or can be made, and no directory in the place of the file.
Writable ==
    /\ call.fault = NoFault
    /\ ~makedirs_raises(pre.fs, call.filepath)
    /\ ~write_raises(pre.fs, call.filepath)

C26_UnknownSectionsSkipped ==
    SectionsCall
    => LET data == json_loads(call.document_data).v
           kept == Rendered(CallSections)
           r == render_document([data EXCEPT !.v.sections = JArr(kept)]) IN
       /\ IsDict(result)
       /\ result.success = (r.exc = None /\ Writable)
       /\ result.success = TRUE
            => /\ fs[call.filepath].data = r.doc
               /\ (DOMAIN data.v = {"sections"}
                   /\ \A i \in DOMAIN kept :
                        Get(kept[i], "type", JNull) \in {JStr("spacer"), JStr("paragraph")})
                  => /\ Len(r.doc.body) = Len(kept)
                     /\ \A i \in DOMAIN kept :
                          /\ kept[i].v.type = JStr("spacer")
                                => r.doc.body[i] = Para("Normal", None, <<>>)
                          /\ (/\ kept[i].v.type = JStr("paragraph")
                              /\ lower(Get(kept[i], "alignment", JStr("left")).v)
                                    \notin {"center", "right", "justify"})
                                => r.doc.body[i].align = "LEFT"

\* Three sections without a branch between two paragraphs: the document holds
\* the two paragraphs, in their order.
C26_Witness ==
    /\ FormattedCallOn({DataUnknownTypes})
    /\ Len(CallSections) = 5
    /\ Len(Rendered(CallSections)) = 2
    /\ result.success = TRUE
    /\ fs[call.filepath].data.body
            = <<Para("Normal", "LEFT", <<Run("A", FALSE, FALSE)>>),
                Para("Normal", "LEFT", <<Run("B", FALSE, FALSE)>>)>>

====
